---- MODULE Spec2Model ----
(***************************************************************************)
(* RFP processing workflow (backend/workflows/rfp_graph.py) and the agent  *)
(* nodes it sequences.  One run of the compiled graph is modelled: each    *)
(* action is one node of the graph together with the edge (or conditional  *)
(* edge function) that follows it.  pricing_agent_node is split at the     *)
(* points where it reads the process-wide rate table settings.LME_RATES,   *)
(* which update_commodity_price overwrites in place.                       *)
(*                                                                         *)
(* Optional fields of RFPGraphState are sequences of length 0 (None) or 1. *)
(* Scores are whole percentages; money is in paise (1/100 INR).            *)
(***************************************************************************)
EXTENDS Integers, Sequences, FiniteSets, TLC

VARIABLES
    rfp_data,                 \* input: <<>> or <<rfp>>
    qualified_rfp,            \* <<>> or <<QualifiedRFP>>
    product_specs,            \* sequence of ProductSpecification
    selected_skus,            \* sequence of SelectedSKU (<<>> is None)
    tech_retry_count,
    tech_retry_logs,
    technical_compliance_ok,
    pricing_results,          \* sequence of PricingResult (<<>> is None)
    pricing_constraints_met,
    lme_rates_snapshot,
    roi_analysis,             \* <<>> or <<roi>>
    consolidated_bid,         \* <<>> or <<ConsolidatedBid>>
    final_decision,           \* "None", "approve", "escalate", "decline"
    agent_logs,
    errors,
    status,
    completion_timestamp,     \* "None" or "set"
    LME_RATES,                \* settings.LME_RATES (process-wide)
    pc,                       \* node the graph runs next
    branch_writes_kept,       \* does the graph keep a conditional-edge function's writes
    attempts,                 \* history: one entry per run of technical_agent_node
    pricing_frame             \* locals of pricing_agent_node: position in its loop,
                              \* the pricing_results list it builds, the rates it read

vars == <<rfp_data, qualified_rfp, product_specs, selected_skus, tech_retry_count,
          tech_retry_logs, technical_compliance_ok, pricing_results,
          pricing_constraints_met, lme_rates_snapshot, roi_analysis,
          consolidated_bid, final_decision, agent_logs, errors, status,
          completion_timestamp, LME_RATES, pc, branch_writes_kept, attempts,
          pricing_frame>>

(***************************************************************************)
(* Bounds of the model                                                     *)
(***************************************************************************)
MaxLines == 2
MaxTechnicalRuns == 6
MaxErrors == 5

(***************************************************************************)
(* Configuration (backend/config.py)                                       *)
(***************************************************************************)
SMM_COMPLIANCE_THRESHOLD == 80
TECHNICAL_MAX_RETRIES == 3
SIZE_TOLERANCE_RELAXATION == 10
RFP_QUALIFICATION_WINDOW_DAYS == 90
TARGET_MARGIN_PCT == 115
USD_TO_INR_RATE == 83
K_CANDIDATES == 5
RouterRetryLimit == 3
RouterThreshold == 80
QualifyRiskCeiling == 7
DecisionErrorCeiling == 3
DecisionRiskCeiling == 5

InitialLmeRates == [Copper |-> 9200, Aluminium |-> 2400]

TEST_PRICING ==
    [n \in {"High Voltage Dielectric Test", "Conductor Resistance Check",
            "Site Acceptance Test (SAT)", "Fire Resistance Test", "UL Certification",
            "IS-1554", "IEC-60502", "IS-7098", "Standard Acceptance"} |->
        CASE n = "High Voltage Dielectric Test" -> 50000
          [] n = "Conductor Resistance Check"   -> 10000
          [] n = "Site Acceptance Test (SAT)"   -> 120000
          [] n = "Fire Resistance Test"         -> 80000
          [] n = "UL Certification"             -> 200000
          [] n = "IS-1554"                      -> 5000
          [] n = "IEC-60502"                    -> 4000
          [] n = "IS-7098"                      -> 3000
          [] n = "Standard Acceptance"          -> 10000]

RISK_CONFIG ==
    [urgent_deadline_days |-> 30, moderate_deadline_days |-> 60,
     bid_bond_penalty |-> 2, ld_clause_penalty |-> 3, high_margin_penalty |-> 1]

(***************************************************************************)
(* OEM catalog (backend/data/models.py); voltage in 1/100 kV               *)
(***************************************************************************)
OEM_PRODUCTS == <<
    [SKU |-> "OEM-XLPE-4C-70", Material |-> "Copper", Insulation |-> "XLPE",
     Cores |-> 4, Size_mm2 |-> 70, Voltage_kV |-> 110, Base_Price |-> 800,
     Metal_Weight_kg_km |-> 280,
     Test_Cert |-> <<"IS-1554", "IEC-60502">>],
    [SKU |-> "OEM-PVC-3C-95", Material |-> "Aluminium", Insulation |-> "PVC",
     Cores |-> 3, Size_mm2 |-> 95, Voltage_kV |-> 330, Base_Price |-> 600,
     Metal_Weight_kg_km |-> 220,
     Test_Cert |-> <<"IS-7098">>],
    [SKU |-> "OEM-XLPE-4C-95", Material |-> "Copper", Insulation |-> "XLPE",
     Cores |-> 4, Size_mm2 |-> 95, Voltage_kV |-> 110, Base_Price |-> 1000,
     Metal_Weight_kg_km |-> 380,
     Test_Cert |-> <<"IS-1554", "IEC-60502">>],
    [SKU |-> "OEM-PVC-4C-50", Material |-> "Copper", Insulation |-> "PVC",
     Cores |-> 4, Size_mm2 |-> 50, Voltage_kV |-> 66, Base_Price |-> 500,
     Metal_Weight_kg_km |-> 200,
     Test_Cert |-> <<"IS-7098">>],
    [SKU |-> "OEM-XLPE-3C-70", Material |-> "Aluminium", Insulation |-> "XLPE",
     Cores |-> 3, Size_mm2 |-> 70, Voltage_kV |-> 330, Base_Price |-> 750,
     Metal_Weight_kg_km |-> 180,
     Test_Cert |-> <<"IS-7098", "IEC-60502">>],
    [SKU |-> "OEM-BEST-MATCH", Material |-> "Copper", Insulation |-> "XLPE",
     Cores |-> 4, Size_mm2 |-> 120, Voltage_kV |-> 110, Base_Price |-> 1200,
     Metal_Weight_kg_km |-> 480,
     Test_Cert |-> <<"IS-1554", "IEC-60502", "UL">>] >>

get_oem_product_by_sku(sku_id) ==
    LET i == CHOOSE j \in 1..Len(OEM_PRODUCTS) :
                 /\ OEM_PRODUCTS[j].SKU = sku_id
                 /\ \A h \in 1..(j - 1) : OEM_PRODUCTS[h].SKU # sku_id
    IN  OEM_PRODUCTS[i]

(***************************************************************************)
(* Helpers on sequences                                                    *)
(***************************************************************************)
RECURSIVE SumSeq(_)
SumSeq(s) == IF s = <<>> THEN 0 ELSE Head(s) + SumSeq(Tail(s))

Min2(a, b) == IF a < b THEN a ELSE b

SeqsUpTo(S, n) == UNION {[1..k -> S] : k \in 0..n}

(***************************************************************************)
(* Risk scoring (backend/tools/risk_assessment_tool.py)                    *)
(***************************************************************************)
risk_level_of(risk_score) ==
    IF risk_score <= 2 THEN "LOW"
    ELSE IF risk_score <= 5 THEN "MEDIUM"
    ELSE IF risk_score <= 7 THEN "HIGH"
    ELSE "CRITICAL"

\* variant: the performance bond counts only above 10 percent
assess_rfp_risk_above_10(days_remaining, bid_bond_required, liquidated_damages_clause, performance_bond_percent) ==
    LET deadline == IF days_remaining < RISK_CONFIG.urgent_deadline_days THEN 4
                    ELSE IF days_remaining < RISK_CONFIG.moderate_deadline_days THEN 2
                    ELSE 0
        bond     == IF bid_bond_required THEN RISK_CONFIG.bid_bond_penalty ELSE 0
        ld       == IF liquidated_damages_clause THEN RISK_CONFIG.ld_clause_penalty ELSE 0
        perf     == IF performance_bond_percent > 10
                    THEN RISK_CONFIG.high_margin_penalty ELSE 0
        score    == Min2(deadline + bond + ld + perf, 10)
    IN  [risk_score |-> score, risk_level |-> risk_level_of(score),
         days_to_deadline |-> days_remaining]

assess_rfp_risk(days_remaining, bid_bond_required, liquidated_damages_clause, performance_bond_percent) ==
    LET deadline == IF days_remaining < RISK_CONFIG.urgent_deadline_days THEN 4
                    ELSE IF days_remaining < RISK_CONFIG.moderate_deadline_days THEN 2
                    ELSE 0
        bond     == IF bid_bond_required THEN RISK_CONFIG.bid_bond_penalty ELSE 0
        ld       == IF liquidated_damages_clause THEN RISK_CONFIG.ld_clause_penalty ELSE 0
        perf     == IF performance_bond_percent >= 10
                    THEN RISK_CONFIG.high_margin_penalty ELSE 0
        score    == Min2(deadline + bond + ld + perf, 10)
    IN  [risk_score |-> score, risk_level |-> risk_level_of(score),
         days_to_deadline |-> days_remaining]

(***************************************************************************)
(* Candidate retrieval (backend/data/embeddings_cache.py,                  *)
(* backend/tools/vector_db_tool.py)                                        *)
(***************************************************************************)
FuzzyScore(product, spec) ==
      (IF product.Material = spec.req_material THEN 30 ELSE 0)
    + (IF product.Insulation = spec.req_insulation THEN 20 ELSE 0)
    + (IF product.Cores = spec.req_cores THEN 25 ELSE 0)
    + (IF product.Size_mm2 >= spec.req_size_mm2 THEN 25 ELSE 0)
    + (IF product.Voltage_kV = spec.req_voltage_kv THEN 5 ELSE 0)

\* list.sort(key=similarity, reverse=True): stable, equal scores keep catalog order
RECURSIVE InsertDesc(_, _)
InsertDesc(sorted, x) ==
    IF sorted = <<>> THEN <<x>>
    ELSE IF Head(sorted).similarity >= x.similarity
         THEN <<Head(sorted)>> \o InsertDesc(Tail(sorted), x)
         ELSE <<x>> \o sorted

RECURSIVE SortDesc(_)
SortDesc(s) ==
    IF s = <<>> THEN <<>>
    ELSE InsertDesc(SortDesc(SubSeq(s, 1, Len(s) - 1)), s[Len(s)])

\* size_ratio = Size_mm2 / req_size_mm2 divides by zero when req_size_mm2 = 0
match_products_raises(spec) ==
    \E i \in 1..Len(OEM_PRODUCTS) :
        /\ OEM_PRODUCTS[i].Size_mm2 >= spec.req_size_mm2
        /\ spec.req_size_mm2 = 0

match_products(spec) ==
    SortDesc([i \in 1..Len(OEM_PRODUCTS) |->
                [sku |-> OEM_PRODUCTS[i].SKU,
                 similarity |-> FuzzyScore(OEM_PRODUCTS[i], spec)]])

\* vector_db_tool: <<>> together with failed = TRUE stands for [{"error": ...}]
vector_db_tool(spec, k) ==
    IF match_products_raises(spec)
    THEN [failed |-> TRUE, results |-> <<>>]
    ELSE [failed |-> FALSE,
          results |-> SubSeq(match_products(spec), 1, Min2(k, Len(OEM_PRODUCTS)))]

(***************************************************************************)
(* Spec Match Metric (backend/agents/technical_agent.py)                   *)
(***************************************************************************)
\* variant: the tolerance is added to the required size
size_match_tightened(sku_size, req_size_mm2, size_tolerance) ==
    sku_size >= req_size_mm2 + size_tolerance

size_match(sku_size, req_size_mm2, size_tolerance) ==
    sku_size >= req_size_mm2 - size_tolerance

\* variant: insulation weighs as much as the material
weights_insulation_heavy == [Material |-> 30, Cores |-> 20, Size_mm2 |-> 20, Insulation |-> 30]

\* weights in percent: weights[f] * 100
weights == [Material |-> 30, Cores |-> 25, Size_mm2 |-> 25, Insulation |-> 20]

\* variant: size weighted 20 and insulation 25
calculate_smm_weighted_swapped(spec, sku_data, size_tolerance) ==
    LET field(matched, w) == [match |-> IF matched THEN 1 ELSE 0,
                              score |-> IF matched THEN w ELSE 0, weight |-> w]
        breakdown ==
            [Material   |-> field(sku_data.Material = spec.req_material, 30),
             Cores      |-> field(sku_data.Cores = spec.req_cores, 25),
             Size_mm2   |-> field(size_match(sku_data.Size_mm2, spec.req_size_mm2,
                                             size_tolerance), 20),
             Insulation |-> field(sku_data.Insulation = spec.req_insulation, 25)]
    IN  [score |-> breakdown.Material.score + breakdown.Cores.score
                   + breakdown.Size_mm2.score + breakdown.Insulation.score,
         breakdown |-> breakdown]

\* returns the pair (smm_score, breakdown) as a record
calculate_smm_weighted(spec, sku_data, size_tolerance) ==
    LET field(matched, w) == [match |-> IF matched THEN 1 ELSE 0,
                              score |-> IF matched THEN w ELSE 0, weight |-> w]
        breakdown ==
            [Material   |-> field(sku_data.Material = spec.req_material,
                                  weights.Material),
             Cores      |-> field(sku_data.Cores = spec.req_cores, weights.Cores),
             Size_mm2   |-> field(size_match(sku_data.Size_mm2, spec.req_size_mm2,
                                             size_tolerance), weights.Size_mm2),
             Insulation |-> field(sku_data.Insulation = spec.req_insulation,
                                  weights.Insulation)]
    IN  [score |-> breakdown.Material.score + breakdown.Cores.score
                   + breakdown.Size_mm2.score + breakdown.Insulation.score,
         breakdown |-> breakdown]

\* variant: the tolerance is tightened from one attempt to the next
size_tolerance_for_shrinking(retry_count) ==
    IF retry_count = 0 THEN SIZE_TOLERANCE_RELAXATION * 2
    ELSE IF retry_count = 1 THEN SIZE_TOLERANCE_RELAXATION
    ELSE 0

\* progressive relaxation chosen from the retry counter
size_tolerance_for(retry_count) ==
    IF retry_count = 0 THEN 0
    ELSE IF retry_count = 1 THEN SIZE_TOLERANCE_RELAXATION
    ELSE SIZE_TOLERANCE_RELAXATION * 2

\* variant: a later candidate with an equal score replaces the earlier one
RECURSIVE best_match_of_last_wins(_, _, _, _)
best_match_of_last_wins(results, spec, size_tolerance, best) ==
    IF results = <<>> THEN best
    ELSE LET sku_id == Head(results).sku
             smm    == calculate_smm_weighted(spec, get_oem_product_by_sku(sku_id),
                                              size_tolerance).score
             nbest  == IF smm >= best.smm_score /\ smm > 0
                       THEN [found |-> TRUE, sku_id |-> sku_id, smm_score |-> smm]
                       ELSE best
         IN  best_match_of_last_wins(Tail(results), spec, size_tolerance, nbest)

\* loop over search_results keeping the first candidate with a strictly higher score
RECURSIVE best_match_of(_, _, _, _)
best_match_of(results, spec, size_tolerance, best) ==
    IF results = <<>> THEN best
    ELSE LET sku_id == Head(results).sku
             smm    == calculate_smm_weighted(spec, get_oem_product_by_sku(sku_id),
                                              size_tolerance).score
             nbest  == IF smm > best.smm_score
                       THEN [found |-> TRUE, sku_id |-> sku_id, smm_score |-> smm]
                       ELSE best
         IN  best_match_of(Tail(results), spec, size_tolerance, nbest)

NoBest == [found |-> FALSE, sku_id |-> "", smm_score |-> 0]

\* variant: the loop over the specifications stops at the first failed retrieval
RECURSIVE match_all_specs_stop_at_failure(_, _, _)
match_all_specs_stop_at_failure(specs, retry_count, size_tolerance) ==
    IF specs = <<>> THEN [selected |-> <<>>, errs |-> <<>>, logs |-> <<>>]
    ELSE
      LET spec   == Head(specs)
          rest   == match_all_specs_stop_at_failure(Tail(specs), retry_count,
                                                    size_tolerance)
          search == vector_db_tool(spec, K_CANDIDATES)
          best   == best_match_of(search.results, spec, size_tolerance, NoBest)
      IN  IF search.failed \/ search.results = <<>>
          THEN [selected |-> <<>>,
                errs |-> <<"Vector DB search failed for line">>,
                logs |-> <<>>]
          ELSE IF best.found
          THEN [selected |-> <<[line |-> spec.line, sku_id |-> best.sku_id,
                                smm_score |-> best.smm_score,
                                retry_count |-> retry_count]>> \o rest.selected,
                errs |-> rest.errs,
                logs |-> <<[line |-> spec.line, sku_id |-> best.sku_id,
                            attempt |-> retry_count + 1]>> \o rest.logs]
          ELSE [selected |-> rest.selected,
                errs |-> <<"No matching SKU found for line">> \o rest.errs,
                logs |-> rest.logs]

\* variant: on a retry only the lines that were below the threshold are matched
\* again; a line that already passed keeps the selection of the attempt before
RECURSIVE match_all_specs_only_failing(_, _, _)
match_all_specs_only_failing(specs, retry_count, size_tolerance) ==
    IF specs = <<>> THEN [selected |-> <<>>, errs |-> <<>>, logs |-> <<>>]
    ELSE
      LET spec   == Head(specs)
          rest   == match_all_specs_only_failing(Tail(specs), retry_count,
                                                 size_tolerance)
          search == vector_db_tool(spec, K_CANDIDATES)
          best   == best_match_of(search.results, spec, size_tolerance, NoBest)
          before == IF retry_count = 0 THEN NoBest
                    ELSE best_match_of(search.results, spec,
                                       size_tolerance_for(retry_count - 1), NoBest)
      IN  IF search.failed \/ search.results = <<>>
          THEN [selected |-> rest.selected,
                errs |-> <<"Vector DB search failed for line">> \o rest.errs,
                logs |-> rest.logs]
          ELSE IF before.found /\ before.smm_score >= SMM_COMPLIANCE_THRESHOLD
          THEN [selected |-> <<[line |-> spec.line, sku_id |-> before.sku_id,
                                smm_score |-> before.smm_score,
                                retry_count |-> retry_count - 1]>> \o rest.selected,
                errs |-> rest.errs,
                logs |-> rest.logs]
          ELSE IF best.found
          THEN [selected |-> <<[line |-> spec.line, sku_id |-> best.sku_id,
                                smm_score |-> best.smm_score,
                                retry_count |-> retry_count]>> \o rest.selected,
                errs |-> rest.errs,
                logs |-> <<[line |-> spec.line, sku_id |-> best.sku_id,
                            attempt |-> retry_count + 1]>> \o rest.logs]
          ELSE [selected |-> rest.selected,
                errs |-> <<"No matching SKU found for line">> \o rest.errs,
                logs |-> rest.logs]

\* one pass of the per-specification loop of technical_agent_node:
\* returns the selections and the errors appended, in order
RECURSIVE match_all_specs(_, _, _)
match_all_specs(specs, retry_count, size_tolerance) ==
    IF specs = <<>> THEN [selected |-> <<>>, errs |-> <<>>, logs |-> <<>>]
    ELSE
      LET spec   == Head(specs)
          rest   == match_all_specs(Tail(specs), retry_count, size_tolerance)
          search == vector_db_tool(spec, K_CANDIDATES)
          best   == best_match_of(search.results, spec, size_tolerance, NoBest)
      IN  IF search.failed \/ search.results = <<>>
          THEN [selected |-> rest.selected,
                errs |-> <<"Vector DB search failed for line">> \o rest.errs,
                logs |-> rest.logs]
          ELSE IF best.found
          THEN [selected |-> <<[line |-> spec.line, sku_id |-> best.sku_id,
                                smm_score |-> best.smm_score,
                                retry_count |-> retry_count]>> \o rest.selected,
                errs |-> rest.errs,
                logs |-> <<[line |-> spec.line, sku_id |-> best.sku_id,
                            attempt |-> retry_count + 1]>> \o rest.logs]
          ELSE [selected |-> rest.selected,
                errs |-> <<"No matching SKU found for line">> \o rest.errs,
                logs |-> rest.logs]

all_compliant(skus, threshold) ==
    \A i \in 1..Len(skus) : skus[i].smm_score >= threshold

(***************************************************************************)
(* Pricing (backend/tools/pricing_lookup_tool.py); results in paise        *)
(***************************************************************************)
\* round(x, 2) of n / 10^6 paise, n = Q * 10^4 + R
RoundMicro(Q, R) ==
    (Q \div 100) + (((Q % 100) * 10000 + R + 500000) \div 1000000)

\* variant: the margin is applied to the metal cost only
calculate_sku_unit_cost_margin_on_metal(sku_id, material, metal_weight_kg_km, rates) ==
    LET base_price == get_oem_product_by_sku(sku_id).Base_Price
        metal_micro == metal_weight_kg_km * rates[material] * USD_TO_INR_RATE
        q == metal_micro \div 10000
        r == metal_micro % 10000
    IN  [metal_cost_per_m |-> (metal_micro + 5000) \div 10000,
         unit_cost  |-> base_price * 100 + (metal_micro + 5000) \div 10000,
         unit_price |-> base_price * 100
                        + RoundMicro(q * TARGET_MARGIN_PCT, r * TARGET_MARGIN_PCT)]

\* the three amounts returned are round(..., 2), here in paise
\* unit_price = (Base_Price + (w/1000) * (rate/1000) * USD_TO_INR) * TARGET_MARGIN
calculate_sku_unit_cost(sku_id, material, metal_weight_kg_km, rates) ==
    LET base_price == get_oem_product_by_sku(sku_id).Base_Price
        metal_micro == metal_weight_kg_km * rates[material] * USD_TO_INR_RATE
        q == metal_micro \div 10000
        r == metal_micro % 10000
    IN  [metal_cost_per_m |-> (metal_micro + 5000) \div 10000,
         unit_cost  |-> base_price * 100 + (metal_micro + 5000) \div 10000,
         unit_price |-> base_price * TARGET_MARGIN_PCT
                        + RoundMicro(q * TARGET_MARGIN_PCT, r * TARGET_MARGIN_PCT)]

get_test_cost_raises(test_name) == test_name \notin DOMAIN TEST_PRICING

RECURSIVE services_cost_of(_)
services_cost_of(tests) ==
    IF tests = <<>> THEN 0
    ELSE TEST_PRICING[Head(tests)] * 100 + services_cost_of(Tail(tests))

\* quantity is the pair (is it a number, its value): unit_price * quantity raises
\* TypeError for a quantity that is not a number
calculate_line_cost(sku_id, quantity, material, metal_weight_kg_km, test_requirements, include_risk_premium, bid_bond_value, rates) ==
    IF ~quantity.is_number
       \/ \E i \in 1..Len(test_requirements) : get_test_cost_raises(test_requirements[i])
    THEN [error |-> TRUE, material_cost_total |-> 0, services_cost |-> 0,
          risk_premium |-> 0, grand_total |-> 0]
    ELSE
      LET unit_price == calculate_sku_unit_cost(sku_id, material, metal_weight_kg_km,
                                                rates).unit_price
          material_cost_total == unit_price * quantity.value
          services_cost == services_cost_of(test_requirements)
          risk_premium == IF include_risk_premium /\ bid_bond_value > 0
                          THEN bid_bond_value * 2 ELSE 0
      IN  [error |-> FALSE, material_cost_total |-> material_cost_total,
           services_cost |-> services_cost, risk_premium |-> risk_premium,
           grand_total |-> material_cost_total + services_cost + risk_premium]

\* first product spec whose line equals the selected SKU's line
matching_spec_of(specs, line) ==
    LET idx == {i \in 1..Len(specs) : specs[i].line = line}
    IN  IF idx = {} THEN <<>>
        ELSE <<specs[CHOOSE i \in idx : \A j \in idx : i <= j]>>

\* variant: every pricing line carries the quantity of the first specification
price_line_first_quantity(sel, specs, rfp, rates) ==
    LET sku_data == get_oem_product_by_sku(sel.sku_id)
        ms   == matching_spec_of(specs, sel.line)
        cost == calculate_line_cost(sel.sku_id,
                    [is_number |-> ms[1].quantity_is_number, value |-> ms[1].quantity],
                    sku_data.Material, sku_data.Metal_Weight_kg_km,
                    rfp.Test_Requirements,
                    rfp.Bid_Bond_Required \/ rfp.Liquidated_Damages_Clause,
                    rfp.Bid_Bond_Value, rates)
    IN  IF ms = <<>>
        THEN [results |-> <<>>, errs |-> <<"No matching spec for line">>,
              rates_read |-> <<>>]
        ELSE IF cost.error
        THEN [results |-> <<>>, errs |-> <<"Line pricing error">>, rates_read |-> <<>>]
        ELSE [results |-> <<[line |-> sel.line, sku_id |-> sel.sku_id,
                             quantity |-> specs[1].quantity,
                             material_cost |-> cost.material_cost_total,
                             services_cost |-> cost.services_cost,
                             risk_premium |-> cost.risk_premium,
                             grand_total |-> cost.grand_total]>>,
              errs |-> <<>>,
              rates_read |-> <<[line |-> sel.line, material |-> sku_data.Material,
                                rate |-> rates[sku_data.Material]]>>]

\* one pass of the per-line loop of pricing_agent_node: the PricingResult built
\* (or none), the errors appended and the rate get_lme_rate returned
price_line(sel, specs, rfp, rates) ==
    LET sku_data == get_oem_product_by_sku(sel.sku_id)
        ms   == matching_spec_of(specs, sel.line)
        cost == calculate_line_cost(sel.sku_id,
                    [is_number |-> ms[1].quantity_is_number, value |-> ms[1].quantity],
                    sku_data.Material, sku_data.Metal_Weight_kg_km,
                    rfp.Test_Requirements,
                    rfp.Bid_Bond_Required \/ rfp.Liquidated_Damages_Clause,
                    rfp.Bid_Bond_Value, rates)
    IN  IF ms = <<>>
        THEN [results |-> <<>>, errs |-> <<"No matching spec for line">>,
              rates_read |-> <<>>]
        ELSE IF cost.error
        THEN [results |-> <<>>, errs |-> <<"Line pricing error">>, rates_read |-> <<>>]
        ELSE [results |-> <<[line |-> sel.line, sku_id |-> sel.sku_id,
                             quantity |-> ms[1].quantity,
                             material_cost |-> cost.material_cost_total,
                             services_cost |-> cost.services_cost,
                             risk_premium |-> cost.risk_premium,
                             grand_total |-> cost.grand_total]>>,
              errs |-> <<>>,
              rates_read |-> <<[line |-> sel.line, material |-> sku_data.Material,
                                rate |-> rates[sku_data.Material]]>>]

\* pricing_agent_node is not running
NoFrame == [next |-> 0, pricing_results |-> <<>>, rates_read |-> <<>>,
            rates_at_start |-> <<>>]

all_positive(results) == \A i \in 1..Len(results) : results[i].grand_total > 0

(***************************************************************************)
(* Inputs of a run                                                         *)
(***************************************************************************)
\* Quantity_Is_Number is FALSE for a line whose "Quantity" is not a number (a
\* string, None); Quantity then holds no value that is used
ProductPool == {
    [Quantity |-> 10, Quantity_Is_Number |-> TRUE, Req_Material |-> "Copper", Req_Insulation |-> "XLPE",
     Req_Cores |-> 4, Req_Size_mm2 |-> 95, Req_Voltage_kV |-> 110],
    [Quantity |-> 10, Quantity_Is_Number |-> TRUE, Req_Material |-> "Copper", Req_Insulation |-> "XLPE",
     Req_Cores |-> 4, Req_Size_mm2 |-> 130, Req_Voltage_kV |-> 110],
    [Quantity |-> 10, Quantity_Is_Number |-> TRUE, Req_Material |-> "Copper", Req_Insulation |-> "XLPE",
     Req_Cores |-> 4, Req_Size_mm2 |-> 140, Req_Voltage_kV |-> 110],
    [Quantity |-> 10, Quantity_Is_Number |-> TRUE, Req_Material |-> "Copper", Req_Insulation |-> "XLPE",
     Req_Cores |-> 4, Req_Size_mm2 |-> 150, Req_Voltage_kV |-> 110],
    [Quantity |-> 0, Quantity_Is_Number |-> TRUE, Req_Material |-> "Aluminium", Req_Insulation |-> "PVC",
     Req_Cores |-> 3, Req_Size_mm2 |-> 70, Req_Voltage_kV |-> 330],
    [Quantity |-> 0 - 5, Quantity_Is_Number |-> TRUE, Req_Material |-> "Copper", Req_Insulation |-> "PVC",
     Req_Cores |-> 4, Req_Size_mm2 |-> 50, Req_Voltage_kV |-> 66],
    [Quantity |-> 10, Quantity_Is_Number |-> TRUE, Req_Material |-> "Copper", Req_Insulation |-> "XLPE",
     Req_Cores |-> 4, Req_Size_mm2 |-> 0, Req_Voltage_kV |-> 110],
    [Quantity |-> 10, Quantity_Is_Number |-> TRUE, Req_Material |-> "Steel", Req_Insulation |-> "Rubber",
     Req_Cores |-> 7, Req_Size_mm2 |-> 500, Req_Voltage_kV |-> 1100],
    [Quantity |-> 0, Quantity_Is_Number |-> FALSE, Req_Material |-> "Copper", Req_Insulation |-> "XLPE",
     Req_Cores |-> 4, Req_Size_mm2 |-> 70, Req_Voltage_kV |-> 110] }

WithLines(ps) ==
    [i \in 1..Len(ps) |->
        [Line |-> i, Quantity |-> ps[i].Quantity,
         Quantity_Is_Number |-> ps[i].Quantity_Is_Number, Req_Material |-> ps[i].Req_Material,
         Req_Insulation |-> ps[i].Req_Insulation, Req_Cores |-> ps[i].Req_Cores,
         Req_Size_mm2 |-> ps[i].Req_Size_mm2, Req_Voltage_kV |-> ps[i].Req_Voltage_kV]]

TestsPool == { <<>>, <<"High Voltage Dielectric Test">>, <<"Vendor Audit">> }

\* commercial terms: days to deadline, bid bond, bond value (INR), LD clause,
\* performance bond percent
CommercialPool == {
    [days |-> 75,    bond |-> FALSE, value |-> 0,      ld |-> FALSE, perf |-> 0],
    [days |-> 75,    bond |-> TRUE,  value |-> 500000, ld |-> TRUE,  perf |-> 10],
    [days |-> 20,    bond |-> TRUE,  value |-> 500000, ld |-> TRUE,  perf |-> 10],
    [days |-> 120,   bond |-> FALSE, value |-> 0,      ld |-> FALSE, perf |-> 5],
    [days |-> 0 - 1, bond |-> FALSE, value |-> 0,      ld |-> FALSE, perf |-> 0],
    [days |-> 45,    bond |-> TRUE,  value |-> 0,      ld |-> FALSE, perf |-> 0],
    [days |-> 20,    bond |-> FALSE, value |-> 500000, ld |-> TRUE,  perf |-> 0],
    [days |-> 75,    bond |-> FALSE, value |-> 500000, ld |-> TRUE,  perf |-> 10] }

\* due_date_valid: datetime.fromisoformat accepts Due_Date; due_date_comparable:
\* the parsed date can be subtracted from datetime.now() (it carries no UTC offset)
MakeRfp(fields_ok, date_ok, c, tests, products) ==
    [ID |-> "RFP-1", has_required_fields |-> fields_ok, due_date_valid |-> date_ok,
     due_date_comparable |-> TRUE, Due_In_Days |-> c.days, Bid_Bond_Required |-> c.bond, Bid_Bond_Value |-> c.value,
     Liquidated_Damages_Clause |-> c.ld, Performance_Bond_Percent |-> c.perf,
     Test_Requirements |-> tests, Products |-> products]

PlainTerms == [days |-> 75, bond |-> FALSE, value |-> 0, ld |-> FALSE, perf |-> 0]

BondedTerms == [days |-> 75, bond |-> TRUE, value |-> 500000, ld |-> TRUE, perf |-> 10]

\* test requirements are varied under the plain and the bonded terms; the other
\* commercial terms come without test requirements
TestsFor(c) == IF c \in {PlainTerms, BondedTerms} THEN TestsPool ELSE { <<>> }

WellFormedRfps ==
    UNION { { MakeRfp(TRUE, TRUE, c, t, WithLines(ps)) :
                t \in TestsFor(c), ps \in SeqsUpTo(ProductPool, MaxLines) } :
            c \in CommercialPool }

MalformedRfps ==
    { MakeRfp(f, FALSE, PlainTerms, <<>>, WithLines(ps)) :
        f \in BOOLEAN, ps \in SeqsUpTo(ProductPool, 1) }
    \cup
    { MakeRfp(FALSE, TRUE, PlainTerms, <<>>, WithLines(ps)) :
        ps \in SeqsUpTo(ProductPool, 1) }
    \cup
    { [MakeRfp(TRUE, TRUE, PlainTerms, <<>>, WithLines(ps))
          EXCEPT !.due_date_comparable = FALSE] :
        ps \in SeqsUpTo(ProductPool, 1) }

RfpInputs == { <<>> } \cup { <<r>> : r \in WellFormedRfps \cup MalformedRfps }

(***************************************************************************)
(* initialize_rfp_state (backend/workflows/rfp_graph.py)                   *)
(***************************************************************************)
Init ==
    /\ rfp_data \in RfpInputs
    /\ branch_writes_kept \in BOOLEAN
    /\ qualified_rfp = <<>>
    /\ product_specs = <<>>
    /\ selected_skus = <<>>
    /\ tech_retry_count = 0
    /\ tech_retry_logs = <<>>
    /\ technical_compliance_ok = FALSE
    /\ pricing_results = <<>>
    /\ pricing_constraints_met = FALSE
    /\ lme_rates_snapshot = <<>>
    /\ roi_analysis = <<>>
    /\ consolidated_bid = <<>>
    /\ final_decision = "None"
    /\ agent_logs = <<>>
    /\ errors = <<>>
    /\ status = "initialized"
    /\ completion_timestamp = "None"
    /\ LME_RATES = InitialLmeRates
    /\ pc = "sales_agent"
    /\ attempts = <<>>
    /\ pricing_frame = NoFrame

(***************************************************************************)
(* Layer 1: sales discovery (backend/agents/sales_agent.py)                *)
(***************************************************************************)
is_qualified_of(days_remaining, risk_score) ==
    /\ 0 <= days_remaining
    /\ days_remaining <= RFP_QUALIFICATION_WINDOW_DAYS
    /\ risk_score <= QualifyRiskCeiling

\* variant: the due date is not checked before the risk assessment
screening_error_date_unchecked(data) ==
    IF data = <<>> THEN <<"No RFP data provided">>
    ELSE IF ~data[1].has_required_fields THEN <<"RFP missing fields">>
    ELSE IF data[1].due_date_valid /\ ~data[1].due_date_comparable
         THEN <<"Risk assessment failed">>
    ELSE <<>>

\* the checks of sales_agent_node in their order: the error appended by the first
\* one that fails, <<>> when all pass.  assess_rfp_risk returns {"error": ...}
\* when the due date cannot be subtracted from datetime.now().
screening_error(data) ==
    IF data = <<>> THEN <<"No RFP data provided">>
    ELSE IF ~data[1].has_required_fields THEN <<"RFP missing fields">>
    ELSE IF ~data[1].due_date_valid THEN <<"Invalid due date">>
    ELSE IF ~data[1].due_date_comparable THEN <<"Risk assessment failed">>
    ELSE <<>>

sales_agent_node ==
    /\ pc = "sales_agent"
    /\ pc' = "extract_specifications"
    /\ IF screening_error(rfp_data) # <<>>
       THEN /\ errors' = errors \o screening_error(rfp_data)
            /\ status' = "failed_sales_screening"
            /\ UNCHANGED <<qualified_rfp, agent_logs>>
       ELSE LET rfp  == rfp_data[1]
                risk == assess_rfp_risk(rfp.Due_In_Days, rfp.Bid_Bond_Required,
                                        rfp.Liquidated_Damages_Clause,
                                        rfp.Performance_Bond_Percent)
                qual == is_qualified_of(risk.days_to_deadline, risk.risk_score)
            IN  /\ agent_logs' = Append(agent_logs,
                      [agent |-> "Sales Agent", action |-> "Qualified RFP",
                       result |-> IF qual THEN "QUALIFIED" ELSE "DECLINED",
                       attempt |-> 0])
                /\ qualified_rfp' = <<[id |-> rfp.ID, risk_score |-> risk.risk_score,
                                       priority |-> risk.risk_level,
                                       days_to_deadline |-> risk.days_to_deadline]>>
                /\ status' = "sales_screening_complete"
                /\ UNCHANGED errors
    /\ UNCHANGED <<rfp_data, product_specs, selected_skus, tech_retry_count,
                   tech_retry_logs, technical_compliance_ok, pricing_results,
                   pricing_constraints_met, lme_rates_snapshot, roi_analysis,
                   consolidated_bid, final_decision, completion_timestamp,
                   LME_RATES, branch_writes_kept,
                   pricing_frame, attempts>>

extract_specifications_node ==
    /\ pc = "extract_specifications"
    /\ pc' = "technical_agent"
    /\ IF qualified_rfp = <<>>
       THEN /\ errors' = Append(errors, "No qualified RFP found")
            /\ status' = "failed_spec_extraction"
            /\ UNCHANGED <<product_specs, agent_logs>>
       ELSE IF rfp_data = <<>>
       THEN /\ errors' = Append(errors, "No RFP data available for spec extraction")
            /\ status' = "failed_spec_extraction"
            /\ UNCHANGED <<product_specs, agent_logs>>
       ELSE LET products == rfp_data[1].Products
                specs == [i \in 1..Len(products) |->
                            [line |-> products[i].Line,
                             quantity |-> products[i].Quantity,
                             quantity_is_number |-> products[i].Quantity_Is_Number,
                             req_material |-> products[i].Req_Material,
                             req_insulation |-> products[i].Req_Insulation,
                             req_cores |-> products[i].Req_Cores,
                             req_size_mm2 |-> products[i].Req_Size_mm2,
                             req_voltage_kv |-> products[i].Req_Voltage_kV]]
            IN  IF specs = <<>>
                THEN /\ errors' = Append(errors,
                                         "No valid product specifications extracted")
                     /\ status' = "failed_spec_extraction"
                     /\ UNCHANGED <<product_specs, agent_logs>>
                ELSE /\ product_specs' = specs
                     /\ status' = "specifications_extracted"
                     /\ agent_logs' = Append(agent_logs,
                           [agent |-> "Sales Agent", action |-> "Extract Specifications",
                            result |-> "Extracted", attempt |-> 0])
                     /\ UNCHANGED errors
    /\ UNCHANGED <<rfp_data, qualified_rfp, selected_skus, tech_retry_count,
                   tech_retry_logs, technical_compliance_ok, pricing_results,
                   pricing_constraints_met, lme_rates_snapshot, roi_analysis,
                   consolidated_bid, final_decision, completion_timestamp,
                   LME_RATES, branch_writes_kept,
                   pricing_frame, attempts>>

(***************************************************************************)
(* Layer 2: technical matching (backend/agents/technical_agent.py)         *)
(***************************************************************************)
\* variant: a retry overwrites the audit entry of the attempt before it
technical_agent_node_one_audit_entry ==
    /\ pc = "technical_agent"
    /\ Len(attempts) < MaxTechnicalRuns
    /\ pc' = "check_technical_compliance"
    /\ IF product_specs = <<>>
       THEN /\ errors' = Append(errors, "No product specifications found")
            /\ status' = "failed_technical_matching"
            /\ attempts' = Append(attempts, [retry_count |-> tech_retry_count,
                                             size_tolerance |-> 0, matched |-> FALSE,
                                             n_selected |-> 0, compliant |-> FALSE])
            /\ UNCHANGED <<selected_skus, tech_retry_logs, agent_logs>>
       ELSE LET retry_count    == tech_retry_count
                size_tolerance == size_tolerance_for(retry_count)
                m == match_all_specs(product_specs, retry_count, size_tolerance)
            IN  /\ errors' = errors \o m.errs
                /\ selected_skus' = m.selected
                /\ tech_retry_logs' = tech_retry_logs \o m.logs
                /\ status' = "technical_matching_complete"
                /\ agent_logs' = Append(IF retry_count > 0
                                        THEN SubSeq(agent_logs, 1, Len(agent_logs) - 1)
                                        ELSE agent_logs,
                      [agent |-> "Technical Agent", action |-> "SMM Matching",
                       result |-> IF m.selected # <<>> THEN "Selected" ELSE "No matches",
                       attempt |-> retry_count + 1])
                /\ attempts' = Append(attempts,
                      [retry_count |-> retry_count, size_tolerance |-> size_tolerance,
                       matched |-> TRUE, n_selected |-> Len(m.selected),
                       compliant |-> all_compliant(m.selected,
                                                   SMM_COMPLIANCE_THRESHOLD)])
    /\ UNCHANGED <<rfp_data, qualified_rfp, product_specs, tech_retry_count,
                   technical_compliance_ok, pricing_results,
                   pricing_constraints_met, lme_rates_snapshot, roi_analysis,
                   consolidated_bid, final_decision, completion_timestamp,
                   LME_RATES, branch_writes_kept,
                   pricing_frame>>

technical_agent_node ==
    /\ pc = "technical_agent"
    /\ Len(attempts) < MaxTechnicalRuns
    /\ pc' = "check_technical_compliance"
    /\ IF product_specs = <<>>
       THEN /\ errors' = Append(errors, "No product specifications found")
            /\ status' = "failed_technical_matching"
            /\ attempts' = Append(attempts, [retry_count |-> tech_retry_count,
                                             size_tolerance |-> 0, matched |-> FALSE,
                                             n_selected |-> 0, compliant |-> FALSE])
            /\ UNCHANGED <<selected_skus, tech_retry_logs, agent_logs>>
       ELSE LET retry_count    == tech_retry_count
                size_tolerance == size_tolerance_for(retry_count)
                m == match_all_specs(product_specs, retry_count, size_tolerance)
            IN  /\ errors' = errors \o m.errs
                /\ selected_skus' = m.selected
                /\ tech_retry_logs' = tech_retry_logs \o m.logs
                /\ status' = "technical_matching_complete"
                /\ agent_logs' = Append(agent_logs,
                      [agent |-> "Technical Agent", action |-> "SMM Matching",
                       result |-> IF m.selected # <<>> THEN "Selected" ELSE "No matches",
                       attempt |-> retry_count + 1])
                /\ attempts' = Append(attempts,
                      [retry_count |-> retry_count, size_tolerance |-> size_tolerance,
                       matched |-> TRUE, n_selected |-> Len(m.selected),
                       compliant |-> all_compliant(m.selected,
                                                   SMM_COMPLIANCE_THRESHOLD)])
    /\ UNCHANGED <<rfp_data, qualified_rfp, product_specs, tech_retry_count,
                   technical_compliance_ok, pricing_results,
                   pricing_constraints_met, lme_rates_snapshot, roi_analysis,
                   consolidated_bid, final_decision, completion_timestamp,
                   LME_RATES, branch_writes_kept,
                   pricing_frame>>

\* variant: one more retry is granted
route_technical_compliance_one_more(skus, retry_count, compliance_ok) ==
    IF skus = <<>>
    THEN [next |-> "end", retry |-> retry_count, ok |-> compliance_ok]
    ELSE IF all_compliant(skus, RouterThreshold)
    THEN [next |-> "pricing_agent", retry |-> retry_count, ok |-> TRUE]
    ELSE IF retry_count < RouterRetryLimit + 1
    THEN [next |-> "technical_agent", retry |-> retry_count + 1, ok |-> compliance_ok]
    ELSE [next |-> "end", retry |-> retry_count, ok |-> FALSE]

\* variant: routes to pricing as soon as one selected SKU reaches the threshold
route_technical_compliance_any(skus, retry_count, compliance_ok) ==
    IF skus = <<>>
    THEN [next |-> "end", retry |-> retry_count, ok |-> compliance_ok]
    ELSE IF \E i \in 1..Len(skus) : skus[i].smm_score >= RouterThreshold
    THEN [next |-> "pricing_agent", retry |-> retry_count, ok |-> TRUE]
    ELSE IF retry_count < RouterRetryLimit
    THEN [next |-> "technical_agent", retry |-> retry_count + 1, ok |-> compliance_ok]
    ELSE [next |-> "end", retry |-> retry_count, ok |-> FALSE]

\* variant: prices the best effort once the retries are used up
route_technical_compliance_best_effort(skus, retry_count, compliance_ok) ==
    IF skus = <<>>
    THEN [next |-> "end", retry |-> retry_count, ok |-> compliance_ok]
    ELSE IF all_compliant(skus, RouterThreshold)
    THEN [next |-> "pricing_agent", retry |-> retry_count, ok |-> TRUE]
    ELSE IF retry_count < RouterRetryLimit
    THEN [next |-> "technical_agent", retry |-> retry_count + 1, ok |-> compliance_ok]
    ELSE [next |-> "pricing_agent", retry |-> retry_count, ok |-> FALSE]

\* conditional edge after check_technical_compliance (rfp_graph.py); evaluated on
\* the state the node returned.  Gives the next node and the values the function
\* assigns to state["tech_retry_count"] and state["technical_compliance_ok"].
route_technical_compliance(skus, retry_count, compliance_ok) ==
    IF skus = <<>>
    THEN [next |-> "end", retry |-> retry_count, ok |-> compliance_ok]
    ELSE IF all_compliant(skus, RouterThreshold)
    THEN [next |-> "pricing_agent", retry |-> retry_count, ok |-> TRUE]
    ELSE IF retry_count < RouterRetryLimit
    THEN [next |-> "technical_agent", retry |-> retry_count + 1, ok |-> compliance_ok]
    ELSE [next |-> "end", retry |-> retry_count, ok |-> FALSE]

check_technical_compliance_node ==
    /\ pc = "check_technical_compliance"
    /\ LET nodeOk ==
               IF selected_skus = <<>> THEN FALSE
               ELSE IF all_compliant(selected_skus, SMM_COMPLIANCE_THRESHOLD) THEN TRUE
               ELSE IF tech_retry_count >= TECHNICAL_MAX_RETRIES THEN FALSE
               ELSE technical_compliance_ok
           nodeErrs ==
               IF selected_skus = <<>> THEN <<"No SKUs selected">>
               ELSE IF all_compliant(selected_skus, SMM_COMPLIANCE_THRESHOLD) THEN <<>>
               ELSE IF tech_retry_count >= TECHNICAL_MAX_RETRIES
                    THEN <<"Technical compliance failed after attempts">>
               ELSE <<>>
           r == route_technical_compliance(selected_skus, tech_retry_count, nodeOk)
       IN  /\ errors' = errors \o nodeErrs
           /\ pc' = r.next
           /\ technical_compliance_ok' = IF branch_writes_kept THEN r.ok ELSE nodeOk
           /\ tech_retry_count' = IF branch_writes_kept THEN r.retry
                                  ELSE tech_retry_count
    /\ UNCHANGED <<rfp_data, qualified_rfp, product_specs, selected_skus,
                   tech_retry_logs, pricing_results,
                   pricing_constraints_met, lme_rates_snapshot, roi_analysis,
                   consolidated_bid, final_decision, agent_logs, status,
                   completion_timestamp, LME_RATES, branch_writes_kept,
                   pricing_frame, attempts>>

\* the graph run is abandoned when the technical_agent / check_technical_compliance
\* cycle does not stop (graph.invoke raises; routes.py answers HTTP 500)
graph_recursion_error ==
    /\ pc = "technical_agent"
    /\ Len(attempts) >= MaxTechnicalRuns
    /\ pc' = "recursion_error"
    /\ UNCHANGED <<rfp_data, qualified_rfp, product_specs, selected_skus,
                   tech_retry_count, tech_retry_logs, technical_compliance_ok,
                   pricing_results, pricing_constraints_met, lme_rates_snapshot,
                   roi_analysis, consolidated_bid, final_decision, agent_logs,
                   errors, status, completion_timestamp, LME_RATES,
                   branch_writes_kept,
                   pricing_frame, attempts>>

(***************************************************************************)
(* Layer 3: pricing (backend/agents/pricing_agent.py)                      *)
(***************************************************************************)
\* new rates an administrator (or a pricing service) sets, USD per tonne
RateUpdatePool == {10000}

\* update_commodity_price / update_lme_rate: settings.LME_RATES[material] is
\* overwritten in place.  The caller is another thread of the process; the updates
\* enumerated are those that land while pricing_agent_node is running.
update_commodity_price ==
    /\ pc = "pricing_agent"
    /\ pricing_frame.next > 0
    /\ \E material \in DOMAIN LME_RATES, new_rate_usd_mt \in RateUpdatePool :
          /\ LME_RATES[material] # new_rate_usd_mt
          /\ LME_RATES' = [LME_RATES EXCEPT ![material] = new_rate_usd_mt]
    /\ UNCHANGED <<rfp_data, qualified_rfp, product_specs, selected_skus,
                   tech_retry_count, tech_retry_logs, technical_compliance_ok,
                   pricing_results, pricing_constraints_met, lme_rates_snapshot,
                   roi_analysis, consolidated_bid, final_decision, agent_logs,
                   errors, status, completion_timestamp, pc, branch_writes_kept,
                   attempts, pricing_frame>>

\* pricing_agent_node up to its loop: the guard on the inputs
pricing_agent_node ==
    /\ pc = "pricing_agent"
    /\ pricing_frame.next = 0
    /\ IF selected_skus = <<>> \/ rfp_data = <<>>
       THEN /\ errors' = Append(errors, "Missing selected SKUs or RFP data for pricing")
            /\ status' = "failed_pricing"
            /\ pc' = "check_pricing_constraints"
            /\ UNCHANGED pricing_frame
       ELSE /\ pricing_frame' = [next |-> 1, pricing_results |-> <<>>,
                                 rates_read |-> <<>>, rates_at_start |-> <<LME_RATES>>]
            /\ UNCHANGED <<errors, status, pc>>
    /\ UNCHANGED <<rfp_data, qualified_rfp, product_specs, selected_skus,
                   tech_retry_count, tech_retry_logs, technical_compliance_ok,
                   pricing_results, pricing_constraints_met, lme_rates_snapshot,
                   roi_analysis, consolidated_bid, final_decision, agent_logs,
                   completion_timestamp, LME_RATES, branch_writes_kept, attempts>>

\* one iteration of "for selected_sku in selected_skus": get_lme_rate reads
\* settings.LME_RATES as it is now
pricing_agent_line ==
    /\ pc = "pricing_agent"
    /\ pricing_frame.next \in 1..Len(selected_skus)
    /\ LET p == price_line(selected_skus[pricing_frame.next], product_specs,
                           rfp_data[1], LME_RATES)
       IN  /\ errors' = errors \o p.errs
           /\ pricing_frame' =
                 [pricing_frame EXCEPT
                    !.next = @ + 1,
                    !.pricing_results = @ \o p.results,
                    !.rates_read = @ \o p.rates_read]
    /\ UNCHANGED <<rfp_data, qualified_rfp, product_specs, selected_skus,
                   tech_retry_count, tech_retry_logs, technical_compliance_ok,
                   pricing_results, pricing_constraints_met, lme_rates_snapshot,
                   roi_analysis, consolidated_bid, final_decision, agent_logs,
                   status, completion_timestamp, LME_RATES, pc,
                   branch_writes_kept, attempts>>

\* pricing_agent_node after its loop: the results are stored and
\* settings.LME_RATES.copy() is taken as the snapshot
pricing_agent_finish ==
    /\ pc = "pricing_agent"
    /\ pricing_frame.next = Len(selected_skus) + 1
    /\ pc' = "check_pricing_constraints"
    /\ IF pricing_frame.pricing_results = <<>>
       THEN /\ errors' = Append(errors, "No valid pricing results calculated")
            /\ status' = "failed_pricing"
            /\ UNCHANGED <<pricing_results, pricing_constraints_met,
                           lme_rates_snapshot, agent_logs>>
       ELSE /\ pricing_results' = pricing_frame.pricing_results
            /\ pricing_constraints_met' = TRUE
            /\ status' = "pricing_complete"
            /\ lme_rates_snapshot' = <<LME_RATES>>
            /\ agent_logs' = Append(agent_logs,
                  [agent |-> "Pricing Agent",
                   action |-> "Calculate LME-Indexed Pricing",
                   result |-> "Total bid", attempt |-> 0])
            /\ UNCHANGED errors
    /\ UNCHANGED <<rfp_data, qualified_rfp, product_specs, selected_skus,
                   tech_retry_count, tech_retry_logs, technical_compliance_ok,
                   roi_analysis, consolidated_bid, final_decision,
                   completion_timestamp, LME_RATES, branch_writes_kept, attempts,
                   pricing_frame>>

\* variant: a pricing stage without valid results sends the run back to matching
route_pricing_constraints_rematch(results) ==
    IF results = <<>> THEN [next |-> "technical_agent", met |-> FALSE]
    ELSE IF all_positive(results)
    THEN [next |-> "business_advisory_agent", met |-> TRUE]
    ELSE [next |-> "technical_agent", met |-> FALSE]

\* variant: any pricing results pass the gate
route_pricing_constraints_nonempty(results) ==
    IF results = <<>> THEN [next |-> "end", met |-> FALSE]
    ELSE [next |-> "business_advisory_agent", met |-> TRUE]

\* conditional edge after check_pricing_constraints (rfp_graph.py)
route_pricing_constraints(results) ==
    IF results = <<>> THEN [next |-> "end", met |-> FALSE]
    ELSE IF all_positive(results)
    THEN [next |-> "business_advisory_agent", met |-> TRUE]
    ELSE [next |-> "end", met |-> FALSE]

check_pricing_constraints_node ==
    /\ pc = "check_pricing_constraints"
    /\ LET nodeMet == pricing_results # <<>> /\ all_positive(pricing_results)
           nodeErrs == IF pricing_results = <<>>
                       THEN <<"No pricing results available">>
                       ELSE IF all_positive(pricing_results) THEN <<>>
                       ELSE <<"Pricing validation failed: Invalid cost values">>
           r == route_pricing_constraints(pricing_results)
       IN  /\ errors' = errors \o nodeErrs
           /\ pricing_constraints_met' = IF branch_writes_kept THEN r.met ELSE nodeMet
           /\ pc' = r.next
    /\ UNCHANGED <<rfp_data, qualified_rfp, product_specs, selected_skus,
                   tech_retry_count, tech_retry_logs, technical_compliance_ok,
                   pricing_results, lme_rates_snapshot, roi_analysis,
                   consolidated_bid, final_decision, agent_logs, status,
                   completion_timestamp, LME_RATES, branch_writes_kept,
                   pricing_frame, attempts>>

(***************************************************************************)
(* Layer 4: business advisory (backend/agents/business_advisory_agent.py)  *)
(***************************************************************************)
\* variant: the total leaves out services and risk premium
total_of_material_cost(results) ==
    SumSeq([i \in 1..Len(results) |-> results[i].material_cost])

total_of(results) == SumSeq([i \in 1..Len(results) |-> results[i].grand_total])

\* variant: the advisory stage clears the retry bookkeeping of the technical stage
business_advisory_agent_node_resets_retries ==
    /\ pc = "business_advisory_agent"
    /\ pc' = "consolidate_bid"
    /\ tech_retry_count' = 0
    /\ IF pricing_results = <<>> \/ qualified_rfp = <<>>
       THEN /\ errors' = Append(errors,
                                "Missing pricing or RFP data for advisory analysis")
            /\ status' = "failed_advisory"
            /\ UNCHANGED <<roi_analysis, agent_logs>>
       ELSE /\ roi_analysis' =
                 <<[total_bid_value |-> total_of(pricing_results),
                    base_material_cost |->
                        SumSeq([i \in 1..Len(pricing_results) |->
                                   pricing_results[i].material_cost]),
                    number_of_lines |-> Len(pricing_results)]>>
            /\ status' = "advisory_complete"
            /\ agent_logs' = Append(agent_logs,
                  [agent |-> "Business Advisory Agent",
                   action |-> "ROI & Competitive Analysis",
                   result |-> "Savings", attempt |-> 0])
            /\ UNCHANGED errors
    /\ UNCHANGED <<rfp_data, qualified_rfp, product_specs, selected_skus,
                   tech_retry_logs, technical_compliance_ok,
                   pricing_results, pricing_constraints_met, lme_rates_snapshot,
                   consolidated_bid, final_decision, completion_timestamp,
                   LME_RATES, branch_writes_kept,
                   pricing_frame, attempts>>

business_advisory_agent_node ==
    /\ pc = "business_advisory_agent"
    /\ pc' = "consolidate_bid"
    /\ IF pricing_results = <<>> \/ qualified_rfp = <<>>
       THEN /\ errors' = Append(errors,
                                "Missing pricing or RFP data for advisory analysis")
            /\ status' = "failed_advisory"
            /\ UNCHANGED <<roi_analysis, agent_logs>>
       ELSE /\ roi_analysis' =
                 <<[total_bid_value |-> total_of(pricing_results),
                    base_material_cost |->
                        SumSeq([i \in 1..Len(pricing_results) |->
                                   pricing_results[i].material_cost]),
                    number_of_lines |-> Len(pricing_results)]>>
            /\ status' = "advisory_complete"
            /\ agent_logs' = Append(agent_logs,
                  [agent |-> "Business Advisory Agent",
                   action |-> "ROI & Competitive Analysis",
                   result |-> "Savings", attempt |-> 0])
            /\ UNCHANGED errors
    /\ UNCHANGED <<rfp_data, qualified_rfp, product_specs, selected_skus,
                   tech_retry_count, tech_retry_logs, technical_compliance_ok,
                   pricing_results, pricing_constraints_met, lme_rates_snapshot,
                   consolidated_bid, final_decision, completion_timestamp,
                   LME_RATES, branch_writes_kept,
                   pricing_frame, attempts>>

(***************************************************************************)
(* Layer 5: orchestration (backend/agents/orchestrator_agent.py)           *)
(***************************************************************************)
\* ConsolidatedBid(agent_logs=state.get("agent_logs", [])) receives the state's own
\* list object, not a copy: the bid's agent_logs is that list, and the entry the
\* node appends afterwards is in it.  technical_compliance is the quotient
\* smm_sum / smm_count.
consolidate_bid_node ==
    /\ pc = "consolidate_bid"
    /\ pc' = "make_final_decision"
    /\ IF qualified_rfp = <<>> \/ selected_skus = <<>> \/ pricing_results = <<>>
       THEN /\ errors' = Append(errors, "Missing required data for bid consolidation")
            /\ status' = "failed_consolidation"
            /\ UNCHANGED <<consolidated_bid, agent_logs>>
       ELSE /\ agent_logs' = Append(agent_logs,
                  [agent |-> "Orchestrator (CBO)", action |-> "Consolidate Bid",
                   result |-> "Final Bid", attempt |-> 0])
            /\ consolidated_bid' =
                 <<[rfp_id |-> qualified_rfp[1].id,
                    selected_skus |-> selected_skus,
                    pricing_breakdown |-> pricing_results,
                    total_bid_value |-> total_of(pricing_results),
                    smm_sum |-> SumSeq([i \in 1..Len(selected_skus) |->
                                           selected_skus[i].smm_score]),
                    smm_count |-> Len(selected_skus),
                    business_roi |-> roi_analysis,
                    agent_logs |-> agent_logs']>>
            /\ status' = "bid_consolidated"
            /\ UNCHANGED errors
    /\ UNCHANGED <<rfp_data, qualified_rfp, product_specs, selected_skus,
                   tech_retry_count, tech_retry_logs, technical_compliance_ok,
                   pricing_results, pricing_constraints_met, lme_rates_snapshot,
                   roi_analysis, final_decision, completion_timestamp,
                   LME_RATES, branch_writes_kept,
                   pricing_frame, attempts>>

\* variant: the risk score is not looked at
decide_without_risk(errs, rfp, technical_ok, pricing_ok, bid) ==
    IF errs # <<>> /\ Len(errs) > DecisionErrorCeiling THEN "decline"
    ELSE IF bid = <<>> THEN "decline"
    ELSE IF ~(technical_ok /\ pricing_ok) THEN "escalate"
    ELSE "approve"

\* variant: escalates from risk score 5 upwards
decide_risk_ge(errs, rfp, technical_ok, pricing_ok, bid) ==
    IF errs # <<>> /\ Len(errs) > DecisionErrorCeiling THEN "decline"
    ELSE IF bid = <<>> THEN "decline"
    ELSE IF ~(technical_ok /\ pricing_ok) THEN "escalate"
    ELSE IF rfp # <<>> /\ rfp[1].risk_score >= DecisionRiskCeiling THEN "escalate"
    ELSE "approve"

\* the decision table of make_final_decision_node
decide(errs, rfp, technical_ok, pricing_ok, bid) ==
    IF errs # <<>> /\ Len(errs) > DecisionErrorCeiling THEN "decline"
    ELSE IF bid = <<>> THEN "decline"
    ELSE IF ~(technical_ok /\ pricing_ok) THEN "escalate"
    ELSE IF rfp # <<>> /\ rfp[1].risk_score > DecisionRiskCeiling THEN "escalate"
    ELSE "approve"

make_final_decision_node ==
    /\ pc = "make_final_decision"
    /\ pc' = "end"
    /\ LET decision == decide(errors, qualified_rfp, technical_compliance_ok,
                              pricing_constraints_met, consolidated_bid)
       IN  /\ status' = IF decision = "decline" THEN "decision_decline"
                        ELSE IF decision = "escalate" THEN "decision_escalate"
                        ELSE "decision_approve"
           /\ final_decision' = decision
           /\ agent_logs' = Append(agent_logs,
                 [agent |-> "Orchestrator (Final Decision)",
                  action |-> "Make Final Decision",
                  result |-> decision, attempt |-> 0])
           \* the bid's agent_logs is the list appended to
           /\ consolidated_bid' =
                 IF consolidated_bid = <<>> THEN <<>>
                 ELSE <<[consolidated_bid[1] EXCEPT !.agent_logs = agent_logs']>>
    /\ UNCHANGED <<rfp_data, qualified_rfp, product_specs, selected_skus,
                   tech_retry_count, tech_retry_logs, technical_compliance_ok,
                   pricing_results, pricing_constraints_met, lme_rates_snapshot,
                   roi_analysis, errors, completion_timestamp,
                   LME_RATES, branch_writes_kept,
                   pricing_frame, attempts>>

\* variant: the end node downgrades an approval of a run that recorded errors
end_node_redecides ==
    /\ pc = "end"
    /\ pc' = "END"
    /\ completion_timestamp' = "set"
    /\ final_decision' = IF final_decision = "approve" /\ errors # <<>>
                         THEN "escalate" ELSE final_decision
    /\ status' = IF consolidated_bid = <<>> THEN "workflow_failed"
                 ELSE IF status = "decision_approve" THEN "workflow_complete_approved"
                 ELSE IF status = "decision_escalate" THEN "workflow_complete_escalated"
                 ELSE "workflow_complete_declined"
    /\ UNCHANGED <<rfp_data, qualified_rfp, product_specs, selected_skus,
                   tech_retry_count, tech_retry_logs, technical_compliance_ok,
                   pricing_results, pricing_constraints_met, lme_rates_snapshot,
                   roi_analysis, consolidated_bid, agent_logs,
                   errors, LME_RATES, branch_writes_kept,
                   pricing_frame, attempts>>

end_node ==
    /\ pc = "end"
    /\ pc' = "END"
    /\ completion_timestamp' = "set"
    /\ status' = IF consolidated_bid = <<>> THEN "workflow_failed"
                 ELSE IF status = "decision_approve" THEN "workflow_complete_approved"
                 ELSE IF status = "decision_escalate" THEN "workflow_complete_escalated"
                 ELSE "workflow_complete_declined"
    /\ UNCHANGED <<rfp_data, qualified_rfp, product_specs, selected_skus,
                   tech_retry_count, tech_retry_logs, technical_compliance_ok,
                   pricing_results, pricing_constraints_met, lme_rates_snapshot,
                   roi_analysis, consolidated_bid, final_decision, agent_logs,
                   errors, LME_RATES, branch_writes_kept,
                   pricing_frame, attempts>>

(***************************************************************************)
(* The compiled graph (create_rfp_processing_graph)                        *)
(***************************************************************************)
Next ==
    \/ sales_agent_node
    \/ extract_specifications_node
    \/ technical_agent_node
    \/ check_technical_compliance_node
    \/ graph_recursion_error
    \/ pricing_agent_node
    \/ pricing_agent_line
    \/ pricing_agent_finish
    \/ update_commodity_price
    \/ check_pricing_constraints_node
    \/ business_advisory_agent_node
    \/ consolidate_bid_node
    \/ make_final_decision_node
    \/ end_node

Spec == Init /\ [][Next]_vars

\* the graph runtime runs the next node whenever there is one
FairSpec == Spec /\ WF_vars(Next)

(***************************************************************************)
(* Properties of the retry loop and the gates                              *)
(***************************************************************************)
RunOver == pc \in {"END", "recursion_error"}

\* the attempt made with the last retry counter selected SKUs below the threshold
FailedAtMaxRetries ==
    \E i \in 1..Len(attempts) :
        /\ attempts[i].retry_count = TECHNICAL_MAX_RETRIES
        /\ attempts[i].matched
        /\ attempts[i].n_selected > 0
        /\ ~attempts[i].compliant

\* C1: one run executes technical_agent_node at most max_retries + 1 = 4 times
\* (the loop technical_agent <-> check_technical_compliance is bounded).
C1_RetryLoopBounded == Len(attempts) <= TECHNICAL_MAX_RETRIES + 1

\* C2: pricing, advisory analysis and consolidation run only while the most recent
\* technical attempt selected at least one SKU and every selected SKU scores >= 80.
PastComplianceGate ==
    \/ pc \in {"pricing_agent", "check_pricing_constraints", "business_advisory_agent",
               "consolidate_bid", "make_final_decision"}
    \/ pricing_results # <<>>
    \/ roi_analysis # <<>>
    \/ consolidated_bid # <<>>

C2_PricingOnlyWhenCompliant ==
    PastComplianceGate =>
        /\ selected_skus # <<>>
        /\ \A i \in 1..Len(selected_skus) : selected_skus[i].smm_score >= 80

C2_Witness ==
    /\ pricing_results # <<>>
    /\ Len(selected_skus) = 2
    /\ \E i \in 1..Len(attempts) : attempts[i].n_selected > 0 /\ ~attempts[i].compliant

\* C3: an RFP that does not qualify at screening (days < 0, days > 90 or risk > 7)
\* never has its specifications extracted, matched or priced, and gets no bid.
ScreenedOut ==
    /\ qualified_rfp # <<>>
    /\ ~is_qualified_of(qualified_rfp[1].days_to_deadline, qualified_rfp[1].risk_score)

C3_DisqualifiedStopsAtScreening ==
    ScreenedOut =>
        /\ product_specs = <<>>
        /\ attempts = <<>>
        /\ pricing_results = <<>>
        /\ consolidated_bid = <<>>

\* C4: attempt n of technical matching applies size tolerance n * step
\* (0, 10, 20, 30 mm2 for n = 0, 1, 2, 3).
C4_ToleranceIsRetryTimesStep ==
    \A i \in 1..Len(attempts) :
        attempts[i].matched =>
            attempts[i].size_tolerance
                = attempts[i].retry_count * SIZE_TOLERANCE_RELAXATION

\* C5 (as stated): after a non-compliant attempt with retry counter 3 the run ends
\* without pricing, advisory or consolidation, with no bid and
\* technical_compliance_ok false, and the audit log (agent_logs) holds the
\* failure reason.
FailureReason == "Technical compliance failed after attempts"

SampleBid ==
    [rfp_id |-> "RFP-1",
     selected_skus |-> <<[line |-> 1, sku_id |-> "OEM-XLPE-4C-95", smm_score |-> 100,
                          retry_count |-> 0]>>,
     pricing_breakdown |-> <<>>, total_bid_value |-> 0, smm_sum |-> 100,
     smm_count |-> 1, business_roi |-> <<>>, agent_logs |-> <<>>]

InitDecision ==
    /\ errors \in SeqsUpTo({"error"}, MaxErrors)
    /\ qualified_rfp \in { <<>> } \cup
          { <<[id |-> "RFP-1", risk_score |-> r, priority |-> risk_level_of(r),
               days_to_deadline |-> 75]>> : r \in 0..10 }
    /\ technical_compliance_ok \in BOOLEAN
    /\ pricing_constraints_met \in BOOLEAN
    /\ consolidated_bid \in { <<>>, <<SampleBid>> }
    /\ branch_writes_kept \in BOOLEAN
    /\ rfp_data = <<>>
    /\ product_specs = <<>>
    /\ selected_skus = <<>>
    /\ tech_retry_count = 0
    /\ tech_retry_logs = <<>>
    /\ pricing_results = <<>>
    /\ lme_rates_snapshot = <<>>
    /\ roi_analysis = <<>>
    /\ final_decision = "None"
    /\ agent_logs = <<>>
    /\ status = "bid_consolidated"
    /\ completion_timestamp = "None"
    /\ LME_RATES = InitialLmeRates
    /\ pc = "make_final_decision"
    /\ attempts = <<>>
    /\ pricing_frame = NoFrame

NextDecision ==
    \/ make_final_decision_node
    \/ end_node

SpecDecision == InitDecision /\ [][NextDecision]_vars

\* C6: the final decision is decline when there is no consolidated bid or more
\* than 3 errors; otherwise escalate when technical_compliance_ok is false,
\* pricing_constraints_met is false or the risk score exceeds 5; otherwise approve.
DecisionTable(error_count, bid_present, technical_ok, pricing_ok, risk_above_5) ==
    IF ~bid_present \/ error_count > 3 THEN "decline"
    ELSE IF ~technical_ok \/ ~pricing_ok \/ risk_above_5 THEN "escalate"
    ELSE "approve"

C6_DecisionIsTheTable ==
    final_decision # "None" =>
        final_decision =
            DecisionTable(Len(errors), consolidated_bid # <<>>,
                          technical_compliance_ok, pricing_constraints_met,
                          qualified_rfp # <<>> /\ qualified_rfp[1].risk_score > 5)

C6_Witness ==
    /\ final_decision = "escalate"
    /\ qualified_rfp # <<>> /\ qualified_rfp[1].risk_score = 6
    /\ technical_compliance_ok /\ pricing_constraints_met
    /\ consolidated_bid # <<>>
    /\ Len(errors) <= 3

(***************************************************************************)
(* Properties of the end of a run                                          *)
(***************************************************************************)
\* C7: every run reaches the end node, which sets completion_timestamp.
C7_EveryRunReachesEndNode ==
    RunOver => (pc = "END" /\ completion_timestamp = "set")

\* C8: the terminal status is approve, escalate, decline, declined_at_screening
\* or failed_<stage>, the latter naming the stage that failed fatally.
TerminalStatuses ==
    {"workflow_complete_approved", "workflow_complete_escalated",
     "workflow_complete_declined", "declined_at_screening",
     "failed_sales_screening", "failed_spec_extraction", "failed_technical_matching",
     "failed_pricing", "failed_advisory", "failed_consolidation"}

C8_TerminalStatusNamesStage == pc = "END" => status \in TerminalStatuses

\* C9: a run that ends with more than 3 errors has final decision decline.
C9_ManyErrorsForceDecline ==
    (pc = "END" /\ Len(errors) > 3) => final_decision = "decline"

\* C10: when some pricing line has grand_total <= 0, pricing_constraints_met is
\* false, advisory analysis is skipped and the final decision stage records a
\* failure decision.
C10_InvalidPricingGoesToDecision ==
    (pc = "END" /\ pricing_results # <<>> /\ ~all_positive(pricing_results)) =>
        /\ ~pricing_constraints_met
        /\ roi_analysis = <<>>
        /\ final_decision \in {"decline", "escalate"}

(***************************************************************************)
(* Properties of pricing                                                   *)
(***************************************************************************)
\* C11: the commodity rates of a run are one snapshot taken when pricing starts:
\* every priced line used the rate of that snapshot, whatever rate updates
\* arrived meanwhile, and lme_rates_snapshot is that same table.
C11_RatesAreOneSnapshot ==
    /\ \A k \in 1..Len(pricing_frame.rates_read) :
          pricing_frame.rates_read[k].rate
              = pricing_frame.rates_at_start[1][pricing_frame.rates_read[k].material]
    /\ lme_rates_snapshot # <<>> =>
          lme_rates_snapshot[1] = pricing_frame.rates_at_start[1]

\* the bid-level risk premium: 2% of the bid bond value (in paise) when a bid bond
\* is required or a liquidated-damages clause is present
RiskPremiumOf(rfp) ==
    IF rfp.Bid_Bond_Required \/ rfp.Liquidated_Damages_Clause
    THEN rfp.Bid_Bond_Value * 2 ELSE 0

\* C12: the risk premium enters the total bid value exactly once, however many
\* lines are priced: total = sum of the lines' material and services costs + premium.
C12_RiskPremiumOncePerBid ==
    consolidated_bid # <<>> =>
        consolidated_bid[1].total_bid_value
            = SumSeq([i \in 1..Len(pricing_results) |->
                         pricing_results[i].material_cost
                         + pricing_results[i].services_cost])
              + RiskPremiumOf(rfp_data[1])

\* cost of a test or certification in paise, 0 when the name has no price
CostOrZero(name) == IF name \in DOMAIN TEST_PRICING THEN TEST_PRICING[name] * 100 ELSE 0

CertNames == <<"IS-1554", "IEC-60502", "IS-7098", "UL">>

CertsOf(skus) ==
    { c \in {CertNames[n] : n \in 1..Len(CertNames)} :
        \E i \in 1..Len(skus) :
            \E j \in 1..Len(get_oem_product_by_sku(skus[i].sku_id).Test_Cert) :
                get_oem_product_by_sku(skus[i].sku_id).Test_Cert[j] = c }

\* C13: the services cost of a bid is the cost of the required tests plus the cost
\* of the certifications carried by the selected SKUs, each counted once per bid.
C13_ServicesCostedOncePerBid ==
    consolidated_bid # <<>> =>
        SumSeq([i \in 1..Len(pricing_results) |-> pricing_results[i].services_cost])
            = SumSeq([i \in 1..Len(rfp_data[1].Test_Requirements) |->
                         CostOrZero(rfp_data[1].Test_Requirements[i])])
              + SumSeq([n \in 1..Len(CertNames) |->
                           IF CertNames[n] \in CertsOf(selected_skus)
                           THEN CostOrZero(CertNames[n]) ELSE 0])

HasUnknownTest ==
    /\ rfp_data # <<>>
    /\ \E i \in 1..Len(rfp_data[1].Test_Requirements) :
          rfp_data[1].Test_Requirements[i] \notin DOMAIN TEST_PRICING

PricingStageDone ==
    pc \in {"check_pricing_constraints", "business_advisory_agent", "consolidate_bid",
            "make_final_decision"}

\* C14: a required test that has no price costs 0 and is not fatal: once the
\* pricing stage is done, every selected line with a numeric quantity is priced.
C14_UnknownTestIsNotFatal ==
    (PricingStageDone /\ HasUnknownTest) =>
        \A i \in 1..Len(selected_skus) :
            product_specs[selected_skus[i].line].quantity_is_number =>
                \E k \in 1..Len(pricing_results) :
                    pricing_results[k].line = selected_skus[i].line

\* C15: the pricing stage never yields results for a strict subset of the selected
\* SKUs, and no bid is consolidated from partial pricing.
C15_NoPartialPricing ==
    /\ pricing_results # <<>> => Len(pricing_results) = Len(selected_skus)
    /\ consolidated_bid # <<>> =>
          Len(consolidated_bid[1].pricing_breakdown)
              = Len(consolidated_bid[1].selected_skus)

\* C16: every pricing line has grand_total = material_cost + services_cost +
\* risk_premium, and none of the three components is negative.
C16_LineTotalsAddUp ==
    \A i \in 1..Len(pricing_frame.pricing_results) :
        LET pr == pricing_frame.pricing_results[i]
        IN  /\ pr.grand_total = pr.material_cost + pr.services_cost + pr.risk_premium
            /\ pr.material_cost >= 0
            /\ pr.services_cost >= 0
            /\ pr.risk_premium >= 0

(***************************************************************************)
(* The Spec Match Metric on its own: technical_agent_node applied to one   *)
(* specification line at any retry counter                                 *)
(***************************************************************************)
SmmSpecPool ==
    { [line |-> 1, quantity |-> 10, quantity_is_number |-> TRUE, req_material |-> m,
       req_insulation |-> ins, req_cores |-> c, req_size_mm2 |-> sz,
       req_voltage_kv |-> 110] :
        m \in {"Copper", "Aluminium", "Steel"}, ins \in {"XLPE", "PVC"},
        c \in {3, 4}, sz \in {50, 70, 95, 100, 125, 150} }

InitSmm ==
    /\ product_specs \in { <<sp>> : sp \in SmmSpecPool }
    /\ tech_retry_count \in 0..TECHNICAL_MAX_RETRIES
    /\ pc = "technical_agent"
    /\ status = "specifications_extracted"
    /\ rfp_data = <<>>
    /\ branch_writes_kept = TRUE
    /\ qualified_rfp = <<>>
    /\ selected_skus = <<>>
    /\ tech_retry_logs = <<>>
    /\ technical_compliance_ok = FALSE
    /\ pricing_results = <<>>
    /\ pricing_constraints_met = FALSE
    /\ lme_rates_snapshot = <<>>
    /\ roi_analysis = <<>>
    /\ consolidated_bid = <<>>
    /\ final_decision = "None"
    /\ agent_logs = <<>>
    /\ errors = <<>>
    /\ completion_timestamp = "None"
    /\ LME_RATES = InitialLmeRates
    /\ attempts = <<>>
    /\ pricing_frame = NoFrame

NextSmm == technical_agent_node

SpecSmm == InitSmm /\ [][NextSmm]_vars

Tolerances == {0, 10, 20, 30}

\* the four field matches of a specification against a catalog product
FieldMatches(spec, product, t) ==
    [Material   |-> product.Material = spec.req_material,
     Cores      |-> product.Cores = spec.req_cores,
     Size_mm2   |-> product.Size_mm2 >= spec.req_size_mm2 - t,
     Insulation |-> product.Insulation = spec.req_insulation]

\* C17: the SMM score of a specification/candidate pair is the sum over the four
\* fields of weight * 100 for each matched field (material 30, cores 25, size 25,
\* insulation 20): it lies in 0..100, is 100 when all fields match, 75 when only
\* the size mismatches, and the breakdown's field scores add up to it.
C17_SmmIsWeightedSum ==
    \A i \in 1..Len(product_specs), j \in 1..Len(OEM_PRODUCTS), t \in Tolerances :
        LET spec == product_specs[i]
            m    == FieldMatches(spec, OEM_PRODUCTS[j], t)
            r    == calculate_smm_weighted(spec, OEM_PRODUCTS[j], t)
        IN  /\ r.score = (IF m.Material THEN 30 ELSE 0) + (IF m.Cores THEN 25 ELSE 0)
                         + (IF m.Size_mm2 THEN 25 ELSE 0)
                         + (IF m.Insulation THEN 20 ELSE 0)
            /\ r.score >= 0 /\ r.score <= 100
            /\ (m.Material /\ m.Cores /\ m.Size_mm2 /\ m.Insulation) => r.score = 100
            /\ (m.Material /\ m.Cores /\ ~m.Size_mm2 /\ m.Insulation) => r.score = 75
            /\ r.breakdown.Material.score + r.breakdown.Cores.score
               + r.breakdown.Size_mm2.score + r.breakdown.Insulation.score = r.score
            /\ weights.Material + weights.Cores + weights.Size_mm2
               + weights.Insulation = 100

C17_Witness ==
    /\ pc = "check_technical_compliance"
    /\ selected_skus # <<>>
    /\ selected_skus[1].smm_score = 75
    /\ LET m == FieldMatches(product_specs[1],
                             get_oem_product_by_sku(selected_skus[1].sku_id),
                             attempts[1].size_tolerance)
       IN  m.Material /\ m.Cores /\ ~m.Size_mm2 /\ m.Insulation

(***************************************************************************)
(* Selection of the best candidate                                         *)
(***************************************************************************)
ScoresOf(spec, results, t) ==
    [k \in 1..Len(results) |->
        calculate_smm_weighted(spec, get_oem_product_by_sku(results[k].sku), t).score]

IsTopScore(scores, k) == \A h \in 1..Len(scores) : scores[h] <= scores[k]

\* position of the earliest candidate holding the highest score
FirstBest(scores) ==
    CHOOSE k \in 1..Len(scores) :
        IsTopScore(scores, k) /\ \A h \in 1..(k - 1) : scores[h] < scores[k]

SelectionsFor(line) == { i \in 1..Len(selected_skus) : selected_skus[i].line = line }

AttemptJustMade == pc = "check_technical_compliance" /\ attempts # <<>> /\ attempts[Len(attempts)].matched

RiskTermsPool ==
    [days : {0 - 1, 0, 29, 30, 31, 59, 60, 61, 90, 91}, bond : BOOLEAN, value : {0},
     ld : BOOLEAN, perf : {0, 9, 10, 11}]

InitRisk ==
    /\ rfp_data \in { <<MakeRfp(TRUE, TRUE, c, <<>>, <<>>)>> : c \in RiskTermsPool }
    /\ pc = "sales_agent"
    /\ status = "initialized"
    /\ branch_writes_kept = TRUE
    /\ qualified_rfp = <<>>
    /\ product_specs = <<>>
    /\ selected_skus = <<>>
    /\ tech_retry_count = 0
    /\ tech_retry_logs = <<>>
    /\ technical_compliance_ok = FALSE
    /\ pricing_results = <<>>
    /\ pricing_constraints_met = FALSE
    /\ lme_rates_snapshot = <<>>
    /\ roi_analysis = <<>>
    /\ consolidated_bid = <<>>
    /\ final_decision = "None"
    /\ agent_logs = <<>>
    /\ errors = <<>>
    /\ completion_timestamp = "None"
    /\ LME_RATES = InitialLmeRates
    /\ attempts = <<>>
    /\ pricing_frame = NoFrame

NextRisk == sales_agent_node

SpecRisk == InitRisk /\ [][NextRisk]_vars

RiskFormula(days, bond, ld, perf) ==
    LET d   == IF days < 30 THEN 4 ELSE IF days < 60 THEN 2 ELSE 0
        sum == d + (IF bond THEN 2 ELSE 0) + (IF ld THEN 3 ELSE 0)
                 + (IF perf >= 10 THEN 1 ELSE 0)
    IN  IF sum > 10 THEN 10 ELSE sum

\* terms c2 are at least as risky as terms c1
AtLeastAsRisky(c2, c1) ==
    /\ c2.days <= c1.days
    /\ c1.bond => c2.bond
    /\ c1.ld => c2.ld
    /\ c2.perf >= c1.perf

\* C19: the risk score is min(10, d + 2 [bond] + 3 [LD] + 1 [performance bond >= 10])
\* with d = 4 below 30 days, 2 below 60 days, else 0; it lies in 0..10 and never
\* decreases when the terms get riskier; without bond, LD and high performance bond
\* and with 30 days or more it is at most 2 and LOW; below 30 days with bond and LD
\* it is at least 6 and HIGH or CRITICAL.
C19_RiskScoreFormula ==
    qualified_rfp # <<>> =>
        LET rfp == rfp_data[1]
            q   == qualified_rfp[1]
            c1  == [days |-> rfp.Due_In_Days, bond |-> rfp.Bid_Bond_Required,
                    ld |-> rfp.Liquidated_Damages_Clause,
                    perf |-> rfp.Performance_Bond_Percent]
        IN  /\ q.risk_score = RiskFormula(c1.days, c1.bond, c1.ld, c1.perf)
            /\ q.risk_score >= 0 /\ q.risk_score <= 10
            /\ \A c2 \in RiskTermsPool :
                  AtLeastAsRisky(c2, c1) =>
                      assess_rfp_risk(c2.days, c2.bond, c2.ld, c2.perf).risk_score
                          >= q.risk_score
            /\ (~c1.bond /\ ~c1.ld /\ c1.perf < 10 /\ c1.days >= 30) =>
                  (q.risk_score <= 2 /\ q.priority = "LOW")
            /\ (c1.days < 30 /\ c1.bond /\ c1.ld) =>
                  (q.risk_score >= 6 /\ q.priority \in {"HIGH", "CRITICAL"})

C19_Witness ==
    /\ qualified_rfp # <<>>
    /\ rfp_data[1].Due_In_Days = 29
    /\ rfp_data[1].Bid_Bond_Required /\ rfp_data[1].Liquidated_Damages_Clause
    /\ rfp_data[1].Performance_Bond_Percent = 10
    /\ qualified_rfp[1].risk_score = 10
    /\ qualified_rfp[1].priority = "CRITICAL"

(***************************************************************************)
(* Properties of specification extraction                                  *)
(***************************************************************************)
\* C20: a line item with a non-positive (or non-numeric) quantity is rejected by
\* spec extraction, so no such specification is ever held in product_specs and
\* reaches technical matching or pricing.
C20_MalformedLinesRejected ==
    \A i \in 1..Len(product_specs) :
        /\ product_specs[i].quantity_is_number
        /\ product_specs[i].quantity > 0

(***************************************************************************)
(* Properties of a matching attempt with a line that has no candidates     *)
(***************************************************************************)
CountOf(seq, x) == Cardinality({k \in 1..Len(seq) : seq[k] = x})

\* retrieval for the specification failed or returned no candidate
RetrievalFailed(spec) ==
    vector_db_tool(spec, K_CANDIDATES).failed
    \/ vector_db_tool(spec, K_CANDIDATES).results = <<>>

FailedLines(specs) == {i \in 1..Len(specs) : RetrievalFailed(specs[i])}

\* the step of the run that is one matching attempt over product_specs
MatchingAttempt ==
    /\ pc = "technical_agent" /\ pc' = "check_technical_compliance"
    /\ product_specs # <<>>

\* the compliance check that follows an attempt
ComplianceCheck == pc = "check_technical_compliance" /\ pc' # pc

SelectedSkuPool ==
    [line : {1}, sku_id : {"OEM-XLPE-4C-95"}, smm_score : {80, 95, 100},
     retry_count : {0}]

\* amounts in paise
PricingResultPool ==
    { [line |-> 1, sku_id |-> "OEM-XLPE-4C-95", quantity |-> 10,
       material_cost |-> 1483690, services_cost |-> 0, risk_premium |-> 0,
       grand_total |-> 1483690],
      [line |-> 1, sku_id |-> "OEM-XLPE-4C-95", quantity |-> 10,
       material_cost |-> 1483690, services_cost |-> 5000000,
       risk_premium |-> 1000000, grand_total |-> 7483690] }

InitConsolidate ==
    /\ qualified_rfp \in
          { <<>>, <<[id |-> "RFP-1", risk_score |-> 2, priority |-> "LOW",
                     days_to_deadline |-> 75]>> }
    /\ selected_skus \in SeqsUpTo(SelectedSkuPool, MaxLines)
    /\ pricing_results \in SeqsUpTo(PricingResultPool, MaxLines)
    /\ pc = "consolidate_bid"
    /\ status = "advisory_complete"
    /\ agent_logs = <<[agent |-> "Sales Agent", action |-> "Qualified RFP",
                       result |-> "QUALIFIED", attempt |-> 0]>>
    /\ technical_compliance_ok = TRUE
    /\ pricing_constraints_met = TRUE
    /\ branch_writes_kept = TRUE
    /\ rfp_data = <<>>
    /\ product_specs = <<>>
    /\ tech_retry_count = 0
    /\ tech_retry_logs = <<>>
    /\ lme_rates_snapshot = <<>>
    /\ roi_analysis = <<>>
    /\ consolidated_bid = <<>>
    /\ final_decision = "None"
    /\ errors = <<>>
    /\ completion_timestamp = "None"
    /\ LME_RATES = InitialLmeRates
    /\ attempts = <<>>
    /\ pricing_frame = NoFrame

NextConsolidate ==
    \/ consolidate_bid_node
    \/ make_final_decision_node
    \/ end_node

SpecConsolidate == InitConsolidate /\ [][NextConsolidate]_vars

ConsolidationDone == pc \in {"make_final_decision", "end", "END"}

\* C22: a ConsolidatedBid has total_bid_value = sum of grand_total over its pricing
\* lines and technical_compliance = (sum of its selected SKUs' scores) / (their
\* number); with no selections or no pricing lines consolidation produces no bid,
\* reports the missing data and leaves the status failed_consolidation.
C22_BidTotalAndMeanCompliance ==
    ConsolidationDone =>
        /\ consolidated_bid # <<>> =>
              LET bid == consolidated_bid[1]
              IN  /\ bid.total_bid_value
                        = SumSeq([i \in 1..Len(bid.pricing_breakdown) |->
                                     bid.pricing_breakdown[i].grand_total])
                  /\ bid.smm_count = Len(bid.selected_skus)
                  /\ bid.smm_count > 0
                  /\ bid.smm_sum = SumSeq([i \in 1..Len(bid.selected_skus) |->
                                              bid.selected_skus[i].smm_score])
                  /\ bid.selected_skus = selected_skus
                  /\ bid.pricing_breakdown = pricing_results
        /\ (selected_skus = <<>> \/ pricing_results = <<>>) =>
              /\ consolidated_bid = <<>>
              /\ errors # <<>>
              /\ errors[1] = "Missing required data for bid consolidation"
              /\ pc = "make_final_decision" => status = "failed_consolidation"
              /\ pc = "END" => status = "workflow_failed"
        /\ (selected_skus # <<>> /\ pricing_results # <<>> /\ qualified_rfp # <<>>) =>
              consolidated_bid # <<>>

\* a bid over two selections with different scores and two lines with services
C22_Witness ==
    /\ pc = "make_final_decision"
    /\ consolidated_bid # <<>>
    /\ consolidated_bid[1].smm_sum = 180
    /\ consolidated_bid[1].smm_count = 2
    /\ consolidated_bid[1].total_bid_value = 8967380

(***************************************************************************)
(* Properties of the bid of a finished run                                 *)
(***************************************************************************)
\* C23: in a final state that holds a ConsolidatedBid, the bid's rfp_id is the ID
\* of the input RFP, its selected_skus and pricing_breakdown are not empty and
\* its total_bid_value is strictly positive.
C23_FinalBidWellFormed ==
    (pc = "END" /\ consolidated_bid # <<>>) =>
        /\ rfp_data # <<>>
        /\ consolidated_bid[1].rfp_id = rfp_data[1].ID
        /\ consolidated_bid[1].selected_skus # <<>>
        /\ consolidated_bid[1].pricing_breakdown # <<>>
        /\ consolidated_bid[1].total_bid_value > 0

C23_Witness ==
    /\ pc = "END"
    /\ consolidated_bid # <<>>
    /\ Len(consolidated_bid[1].selected_skus) = 2
    /\ Len(consolidated_bid[1].pricing_breakdown) = 2
    /\ consolidated_bid[1].total_bid_value > 0

\* C24: a run ends with the approved status only if a ConsolidatedBid is present,
\* technical_compliance_ok and pricing_constraints_met are true, the risk score is
\* at most 5 and there are at most 3 errors; and the final status is the approved
\* one exactly when final_decision is approve.
C24_ApprovedOnlyWhenAllClear ==
    pc = "END" =>
        /\ status = "workflow_complete_approved" =>
              /\ consolidated_bid # <<>>
              /\ technical_compliance_ok
              /\ pricing_constraints_met
              /\ qualified_rfp # <<>>
              /\ qualified_rfp[1].risk_score <= 5
              /\ Len(errors) <= 3
        /\ (status = "workflow_complete_approved") <=> (final_decision = "approve")

\* an approved run with a risk score of 4 and an error on the way
C24_Witness ==
    /\ pc = "END"
    /\ status = "workflow_complete_approved"
    /\ final_decision = "approve"
    /\ qualified_rfp[1].risk_score = 4
    /\ Len(errors) >= 1

\* C25: a ConsolidatedBid is created at most once per run and never changes
\* afterwards; its agent_logs is a snapshot of the audit log taken at
\* consolidation, so the consolidation entry and the final-decision entry that are
\* appended to the run's audit log later are not in it.
C25_BidIsImmutableSnapshot ==
    [][ /\ consolidated_bid # <<>> => consolidated_bid' = consolidated_bid
        /\ (consolidated_bid = <<>> /\ consolidated_bid' # <<>>) =>
              /\ consolidated_bid'[1].agent_logs = agent_logs
              /\ consolidated_bid'[1].selected_skus = selected_skus
              /\ consolidated_bid'[1].pricing_breakdown = pricing_results
      ]_vars

(***************************************************************************)
(* Properties of sales screening                                           *)
(***************************************************************************)
\* the RFP passes every check of the screening
ScreeningPasses ==
    /\ rfp_data # <<>>
    /\ rfp_data[1].has_required_fields
    /\ rfp_data[1].due_date_valid
    /\ rfp_data[1].due_date_comparable

\* what sales screening must leave as initialize_rfp_state made it
UntouchedByScreening ==
    /\ product_specs = <<>> /\ selected_skus = <<>> /\ tech_retry_count = 0
    /\ tech_retry_logs = <<>> /\ technical_compliance_ok = FALSE
    /\ pricing_results = <<>> /\ pricing_constraints_met = FALSE
    /\ lme_rates_snapshot = <<>> /\ roi_analysis = <<>> /\ consolidated_bid = <<>>
    /\ final_decision = "None" /\ completion_timestamp = "None"

\* C26: right after sales_agent_node, an RFP with all required fields and a usable
\* due date has a QualifiedRFP, status sales_screening_complete, one 'Sales Agent'
\* audit entry and no error; otherwise (no RFP data, a missing field, a due date
\* that does not parse, a failed risk assessment) there is exactly one error,
\* status failed_sales_screening, no QualifiedRFP and no audit entry; no other
\* field of the state has changed.
C26_SalesScreeningOutcome ==
    pc = "extract_specifications" =>
        /\ UntouchedByScreening
        /\ IF ScreeningPasses
           THEN /\ qualified_rfp # <<>>
                /\ qualified_rfp[1].id = rfp_data[1].ID
                /\ status = "sales_screening_complete"
                /\ Len(agent_logs) = 1
                /\ agent_logs[1].agent = "Sales Agent"
                /\ errors = <<>>
           ELSE /\ Len(errors) = 1
                /\ status = "failed_sales_screening"
                /\ qualified_rfp = <<>>
                /\ agent_logs = <<>>

\* screening has failed on a due date that does not parse
C26_Witness ==
    /\ pc = "extract_specifications"
    /\ rfp_data # <<>>
    /\ rfp_data[1].has_required_fields
    /\ ~rfp_data[1].due_date_valid
    /\ errors = <<"Invalid due date">>
    /\ status = "failed_sales_screening"

(***************************************************************************)
(* Properties of the audit log and the retry counter                       *)
(***************************************************************************)
\* C27: the final state of every run, successful or failed at any stage, has at
\* least one entry in its audit log (agent_logs).
C27_AuditLogNeverEmpty == pc = "END" => Len(agent_logs) >= 1

(***************************************************************************)
(* The unit price of scenario D                                            *)
(***************************************************************************)
\* the lines priced so far by pricing_agent_node whose SKU has base price 1000 and
\* metal weight 380 kg/km and that were priced at 9200 USD/MT
ScenarioDLines ==
    { k \in 1..Len(pricing_frame.pricing_results) :
        LET prod == get_oem_product_by_sku(pricing_frame.pricing_results[k].sku_id)
        IN  /\ prod.Base_Price = 1000
            /\ prod.Metal_Weight_kg_km = 380
            /\ pricing_frame.rates_read[k].rate = 9200 }

\* the unit cost computed for a line priced so far, at the rate it was priced at
UnitCostOfLine(k) ==
    LET pr == pricing_frame.pricing_results[k]
        rr == pricing_frame.rates_read[k]
    IN  calculate_sku_unit_cost(pr.sku_id, rr.material,
            get_oem_product_by_sku(pr.sku_id).Metal_Weight_kg_km,
            [m \in {rr.material} |-> rr.rate])

\* C28 (as stated): with base price 1000, metal weight 380 kg/km, 9200 USD/MT,
\* fx 83 and margin 1.15 the metal cost per unit is 290.25, the unit cost 1290.25
\* and the unit price 1483.79.
C28_ScenarioDAsStated ==
    \A k \in ScenarioDLines :
        /\ UnitCostOfLine(k).metal_cost_per_m = 29025
        /\ UnitCostOfLine(k).unit_cost = 129025
        /\ UnitCostOfLine(k).unit_price = 148379
        /\ pricing_frame.pricing_results[k].material_cost
              = 148379 * pricing_frame.pricing_results[k].quantity

\* C28 (amended): with base price 1000, metal weight 380 kg/km, 9200 USD/MT, fx 83
\* and margin 1.15 the metal cost per unit is (380/1000) * (9200/1000) * 83 =
\* 290.168, rounded 290.17; the unit cost is 1000 + 290.168, rounded 1290.17; the
\* unit price is 1290.168 * 1.15 = 1483.6932, rounded 1483.69; the material cost
\* of the line is the unit price times the quantity.
C28_ScenarioD ==
    \A k \in ScenarioDLines :
        /\ UnitCostOfLine(k).metal_cost_per_m = 29017
        /\ UnitCostOfLine(k).unit_cost = 129017
        /\ UnitCostOfLine(k).unit_price = 148369
        /\ UnitCostOfLine(k).unit_cost = 1000 * 100 + UnitCostOfLine(k).metal_cost_per_m
        /\ pricing_frame.pricing_results[k].material_cost
              = 148369 * pricing_frame.pricing_results[k].quantity

C28_Witness ==
    /\ ScenarioDLines # {}
    /\ \E k \in ScenarioDLines :
          /\ pricing_frame.pricing_results[k].sku_id = "OEM-XLPE-4C-95"
          /\ pricing_frame.pricing_results[k].quantity = 10
          /\ pricing_frame.pricing_results[k].material_cost = 1483690

\* the step in which the compliance check routes a retry
RetryRouted == pc = "check_technical_compliance" /\ pc' = "technical_agent"

\* C29: tech_retry_count is 0 in the initial state (selected_skus unset, errors
\* empty, status 'initialized'); it changes only by +1 and only in the step that
\* routes a retry; it never exceeds max_retries (3); and every SelectedSKU carries
\* the counter value of the attempt that produced it, so all SKUs of a selection
\* set share one retry_count.
C29_RetryCounter ==
    /\ (tech_retry_count = 0 /\ selected_skus = <<>> /\ errors = <<>>
        /\ status = "initialized")
    /\ [](/\ tech_retry_count \in 0..TECHNICAL_MAX_RETRIES
          /\ \A i, j \in 1..Len(selected_skus) :
                selected_skus[i].retry_count = selected_skus[j].retry_count)
    /\ [][ /\ tech_retry_count' # tech_retry_count =>
                (tech_retry_count' = tech_retry_count + 1 /\ RetryRouted)
           /\ selected_skus' # selected_skus =>
                \A i \in 1..Len(selected_skus') :
                    selected_skus'[i].retry_count = tech_retry_count
         ]_vars

\* the fourth attempt has selected two SKUs, both carrying retry_count 3
C29_Witness ==
    /\ pc = "check_technical_compliance"
    /\ tech_retry_count = TECHNICAL_MAX_RETRIES
    /\ Len(selected_skus) = 2
    /\ \A i \in 1..Len(selected_skus) : selected_skus[i].retry_count = 3

(***************************************************************************)
(* Monotonicity of the size match                                          *)
(***************************************************************************)
MaxTolerance == 30

\* C30: the size match is candidate size >= required size - t; for fixed sizes a
\* larger tolerance t never turns a match into a mismatch, so the SMM score of a
\* fixed specification/candidate pair never decreases when t grows (checked from
\* each t in 0..MaxTolerance to t + 1 and to every larger tolerance of the retry
\* schedule); in particular the score of a selected SKU is not lower at any
\* tolerance above the attempt's.
C30_SizeMatchMonotone ==
    /\ \A i \in 1..Len(product_specs), j \in 1..Len(OEM_PRODUCTS) :
          \A t1 \in 0..MaxTolerance :
              LET spec == product_specs[i]
                  prod == OEM_PRODUCTS[j]
              IN  /\ size_match(prod.Size_mm2, spec.req_size_mm2, t1)
                        <=> (prod.Size_mm2 >= spec.req_size_mm2 - t1)
                  /\ \A t2 \in {t1 + 1} \cup {t \in Tolerances : t >= t1} :
                        /\ size_match(prod.Size_mm2, spec.req_size_mm2, t1)
                              => size_match(prod.Size_mm2, spec.req_size_mm2, t2)
                        /\ calculate_smm_weighted(spec, prod, t1).score
                              <= calculate_smm_weighted(spec, prod, t2).score
    /\ AttemptJustMade =>
          \A n \in 1..Len(selected_skus), t2 \in Tolerances :
              t2 >= attempts[Len(attempts)].size_tolerance =>
                  calculate_smm_weighted(product_specs[selected_skus[n].line],
                      get_oem_product_by_sku(selected_skus[n].sku_id), t2).score
                      >= selected_skus[n].smm_score

\* the 120 mm2 SKU selected for a 125 mm2 line at tolerance 10 with all fields
\* matching, which scores 75 at tolerance 0
C30_Witness ==
    /\ AttemptJustMade
    /\ attempts[Len(attempts)].size_tolerance = 10
    /\ product_specs[1].req_size_mm2 = 125
    /\ selected_skus # <<>>
    /\ selected_skus[1].sku_id = "OEM-BEST-MATCH"
    /\ selected_skus[1].smm_score = 100
    /\ calculate_smm_weighted(product_specs[1],
                              get_oem_product_by_sku("OEM-BEST-MATCH"), 0).score = 75

(***************************************************************************)
(* Properties of the selection set across attempts                         *)
(***************************************************************************)
\* C31: in each attempt a line is left out of the selection set only when
\* retrieval returned no candidate for it; whenever retrieval returned at least
\* one candidate, exactly one SelectedSKU, the highest-scoring candidate, is
\* recorded for the line.
C31_ExcludedOnlyWithoutCandidates ==
    AttemptJustMade =>
        \A i \in 1..Len(product_specs) :
            LET spec   == product_specs[i]
                search == vector_db_tool(spec, K_CANDIDATES)
                scores == ScoresOf(spec, search.results,
                                   attempts[Len(attempts)].size_tolerance)
            IN  IF RetrievalFailed(spec)
                THEN SelectionsFor(spec.line) = {}
                ELSE /\ Cardinality(SelectionsFor(spec.line)) = 1
                     /\ \A n \in SelectionsFor(spec.line) :
                           /\ IsTopScore(scores, FirstBest(scores))
                           /\ selected_skus[n].smm_score = scores[FirstBest(scores)]

\* position in specs of the specification carrying the line number, 0 when none
PositionOfLine(specs, line) ==
    IF \E i \in 1..Len(specs) : specs[i].line = line
    THEN CHOOSE i \in 1..Len(specs) : specs[i].line = line
    ELSE 0

\* C32: every matching attempt, a retry included, matches all specification
\* lines again: the selection set after the attempt holds only selections made
\* in this attempt, in line order, each the best candidate of its line under
\* the attempt's tolerance, and every line with a candidate scoring above 0 has
\* one, whatever was selected before; product_specs is the same before and
\* after the attempt and the compliance check.
C32_RetryRematchesEveryLine ==
    [][ /\ MatchingAttempt =>
              /\ product_specs' = product_specs
              /\ \A n \in 1..Len(selected_skus') :
                    LET sel    == selected_skus'[n]
                        i      == PositionOfLine(product_specs, sel.line)
                        spec   == product_specs[i]
                        search == vector_db_tool(spec, K_CANDIDATES)
                        scores == ScoresOf(spec, search.results,
                                           size_tolerance_for(tech_retry_count))
                    IN  /\ i # 0
                        /\ sel.retry_count = tech_retry_count
                        /\ sel.sku_id = search.results[FirstBest(scores)].sku
                        /\ sel.smm_score = scores[FirstBest(scores)]
                        /\ \A h \in 1..(n - 1) : selected_skus'[h].line < sel.line
              /\ \A i \in (1..Len(product_specs)) \ FailedLines(product_specs) :
                    LET spec   == product_specs[i]
                        scores == ScoresOf(spec,
                                           vector_db_tool(spec, K_CANDIDATES).results,
                                           size_tolerance_for(tech_retry_count))
                    IN  scores[FirstBest(scores)] > 0 =>
                            \E n \in 1..Len(selected_skus') :
                                selected_skus'[n].line = spec.line
        /\ ComplianceCheck => product_specs' = product_specs
      ]_vars

\* second attempt of a two-line request whose first line already passed the
\* threshold in the first attempt: both lines carry a selection of the retry
C32_Witness ==
    /\ pc = "check_technical_compliance"
    /\ Len(attempts) = 2
    /\ attempts[2].retry_count = 1
    /\ Len(product_specs) = 2
    /\ Len(selected_skus) = 2
    /\ selected_skus[1].retry_count = 1
    /\ selected_skus[2].retry_count = 1
    /\ LET spec == product_specs[1]
           scores == ScoresOf(spec, vector_db_tool(spec, K_CANDIDATES).results,
                              size_tolerance_for(0))
       IN  scores[FirstBest(scores)] >= SMM_COMPLIANCE_THRESHOLD

(***************************************************************************)
(* Properties of the run after the compliance gate and after the decision  *)
(***************************************************************************)
\* the compliance gate has routed the run out of the retry loop, to pricing
\* (compliant) or to the end node (failed)
ComplianceGateDecided ==
    /\ attempts # <<>>
    /\ pc \in {"pricing_agent", "check_pricing_constraints", "business_advisory_agent",
               "consolidate_bid", "make_final_decision", "end", "END"}

\* C33: once the compliance gate has routed the run to pricing or to the end
\* node, no later step of the run is a technical matching attempt or a
\* compliance check, and the retry counter keeps its value.
C33_NoMatchingAfterGate ==
    [][ ComplianceGateDecided =>
            /\ ComplianceGateDecided'
            /\ pc' \notin {"technical_agent", "check_technical_compliance"}
            /\ attempts' = attempts
            /\ tech_retry_count' = tech_retry_count
            /\ tech_retry_logs' = tech_retry_logs
      ]_vars

\* a run that became compliant on its first retry and was carried to its end
C33_Witness ==
    /\ pc = "END"
    /\ Len(attempts) = 2
    /\ tech_retry_count = 1
    /\ technical_compliance_ok
    /\ pricing_results # <<>>

\* C34: once final_decision is set it keeps its value, and the only step taken
\* afterwards is the end node, which records the completion timestamp and
\* leaves the outputs of matching, pricing, advisory and consolidation alone.
C34_DecisionIsFinal ==
    [][ final_decision # "None" =>
            /\ final_decision' = final_decision
            /\ pc = "end" /\ pc' = "END"
            /\ completion_timestamp = "None" /\ completion_timestamp' = "set"
            /\ UNCHANGED <<selected_skus, tech_retry_count, tech_retry_logs,
                           technical_compliance_ok, pricing_results,
                           pricing_constraints_met, lme_rates_snapshot,
                           roi_analysis, consolidated_bid, agent_logs, errors,
                           attempts, pricing_frame>>
      ]_vars

\* an approved run that recorded an error on its way, after its end node
C34_Witness ==
    /\ pc = "END"
    /\ final_decision = "approve"
    /\ errors # <<>>
    /\ completion_timestamp = "set"
    /\ consolidated_bid # <<>>

(***************************************************************************)
(* Frame of the advisory stage                                             *)
(***************************************************************************)
\* the step of the run that is the advisory stage
AdvisoryStep == pc = "business_advisory_agent" /\ pc' # pc

\* C35: the advisory stage adds its own output only: roi_analysis, its status
\* and one audit entry appended to the log; selected_skus, pricing_results,
\* the compliance and pricing flags, the retry counter, qualified_rfp and the
\* commodity-rate snapshot (and every other field of the state) are unchanged.
C35_AdvisoryFrame ==
    [][ AdvisoryStep =>
            /\ roi_analysis' # <<>>
            /\ status' = "advisory_complete"
            /\ Len(agent_logs') = Len(agent_logs) + 1
            /\ SubSeq(agent_logs', 1, Len(agent_logs)) = agent_logs
            /\ agent_logs'[Len(agent_logs')].agent = "Business Advisory Agent"
            /\ UNCHANGED <<selected_skus, pricing_results, technical_compliance_ok,
                           pricing_constraints_met, tech_retry_count, qualified_rfp,
                           lme_rates_snapshot>>
            /\ UNCHANGED <<rfp_data, product_specs, tech_retry_logs, errors,
                           consolidated_bid, final_decision, completion_timestamp>>
      ]_vars

\* the advisory stage has just run on a two-line bid that needed a retry
C35_Witness ==
    /\ pc = "consolidate_bid"
    /\ status = "advisory_complete"
    /\ roi_analysis # <<>>
    /\ roi_analysis[1].number_of_lines = 2
    /\ tech_retry_count = 1
    /\ agent_logs[Len(agent_logs)].agent = "Business Advisory Agent"

(***************************************************************************)
(* Priority label of the QualifiedRFP                                      *)
(***************************************************************************)
\* the label the days to the deadline alone give
PriorityOfDays(days) ==
    IF days < 30 THEN "HIGH" ELSE IF days <= 90 THEN "MEDIUM" ELSE "LOW"

\* C36: the priority of the QualifiedRFP is derived from the days to the
\* deadline only: HIGH when days < 30, MEDIUM when 30 <= days <= 90, LOW
\* otherwise.
C36_PriorityFromDaysOnly ==
    qualified_rfp # <<>> =>
        qualified_rfp[1].priority = PriorityOfDays(qualified_rfp[1].days_to_deadline)

(***************************************************************************)
(* The error list and the audit log over a run                             *)
(***************************************************************************)
IsPrefix(s, t) == Len(s) <= Len(t) /\ SubSeq(t, 1, Len(s)) = s

\* C37: every step of a run keeps the entries of the error list and of the
\* audit log recorded so far, in their order, and can only add entries after
\* them.
C37_ErrorsAndAuditAppendOnly ==
    [][ IsPrefix(errors, errors') /\ IsPrefix(agent_logs, agent_logs') ]_vars

\* a finished run whose matching was retried with errors recorded on the way
C37_Witness ==
    /\ pc = "END"
    /\ Len(attempts) >= 2
    /\ Len(errors) >= 2
    /\ Len(agent_logs) >= 4

(***************************************************************************)
(* The compliance threshold in terms of the matched fields                 *)
(***************************************************************************)
\* C38: a selected SKU reaches the compliance threshold (smm_score >= 80)
\* exactly when its material, its cores and its size (under the tolerance of
\* the attempt) match the specification: an insulation mismatch alone does
\* not block compliance, a material or a cores mismatch always does.  The
\* same holds of the score of every catalog product against the line.
C38_ThresholdIsMaterialCoresSize ==
    /\ \A i \in 1..Len(product_specs), j \in 1..Len(OEM_PRODUCTS), t \in Tolerances :
          LET m == FieldMatches(product_specs[i], OEM_PRODUCTS[j], t)
              r == calculate_smm_weighted(product_specs[i], OEM_PRODUCTS[j], t)
          IN  (r.score >= SMM_COMPLIANCE_THRESHOLD)
                  <=> (m.Material /\ m.Cores /\ m.Size_mm2)
    /\ AttemptJustMade =>
          \A n \in 1..Len(selected_skus) :
              LET spec == product_specs[PositionOfLine(product_specs,
                                                       selected_skus[n].line)]
                  m    == FieldMatches(spec,
                                       get_oem_product_by_sku(selected_skus[n].sku_id),
                                       attempts[Len(attempts)].size_tolerance)
              IN  /\ (selected_skus[n].smm_score >= SMM_COMPLIANCE_THRESHOLD)
                         <=> (m.Material /\ m.Cores /\ m.Size_mm2)
                  /\ (m.Material /\ m.Cores /\ m.Size_mm2 /\ ~m.Insulation)
                         => all_compliant(selected_skus, SMM_COMPLIANCE_THRESHOLD)
                  /\ (~m.Material \/ ~m.Cores)
                         => ~all_compliant(selected_skus, SMM_COMPLIANCE_THRESHOLD)

\* the selected SKU differs from the line in its insulation only and passes
C38_Witness ==
    /\ pc = "check_technical_compliance"
    /\ Len(selected_skus) = 1
    /\ selected_skus[1].smm_score = 80
    /\ all_compliant(selected_skus, SMM_COMPLIANCE_THRESHOLD)
    /\ LET m == FieldMatches(product_specs[1],
                             get_oem_product_by_sku(selected_skus[1].sku_id),
                             attempts[1].size_tolerance)
       IN  m.Material /\ m.Cores /\ m.Size_mm2 /\ ~m.Insulation

(***************************************************************************)
(* Scores of a line from one attempt to the next                           *)
(***************************************************************************)
\* highest score among the candidates retrieved for the specification, 0 when
\* there is none
BestScoreAt(spec, t) ==
    LET search == vector_db_tool(spec, K_CANDIDATES)
        scores == ScoresOf(spec, search.results, t)
    IN  IF search.failed \/ search.results = <<>> THEN 0
        ELSE scores[FirstBest(scores)]

\* C39: for each specification line, retrieval giving the same candidates in
\* the same order, the score of the SKU selected by an attempt is at least the
\* score of the SKU the attempt before selected for the line (a line selected
\* before is selected again), and the best score of the line does not decrease
\* from the tolerance of one retry counter to that of the next.
C39_ScoreNeverDropsOnRetry ==
    [][ (MatchingAttempt /\ attempts # <<>>) =>
            /\ \A n \in 1..Len(selected_skus) :
                  \E k \in 1..Len(selected_skus') :
                      /\ selected_skus'[k].line = selected_skus[n].line
                      /\ selected_skus'[k].smm_score >= selected_skus[n].smm_score
            /\ \A i \in 1..Len(product_specs), r \in 0..(TECHNICAL_MAX_RETRIES - 1) :
                  BestScoreAt(product_specs[i], size_tolerance_for(r + 1))
                      >= BestScoreAt(product_specs[i], size_tolerance_for(r))
      ]_vars

\* the retry has raised the score of the first line from 75 to 100
C39_Witness ==
    /\ pc = "check_technical_compliance"
    /\ Len(attempts) = 2
    /\ attempts[2].retry_count = 1
    /\ selected_skus # <<>>
    /\ selected_skus[1].line = product_specs[1].line
    /\ selected_skus[1].smm_score = 100
    /\ BestScoreAt(product_specs[1], size_tolerance_for(0)) = 75

(***************************************************************************)
(* Pricing lines and the selection set                                     *)
(***************************************************************************)
\* the pricing line belongs to a selected SKU and carries the quantity of the
\* specification with its line number
PricedFromSelection(pr) ==
    /\ \E n \in 1..Len(selected_skus) :
          /\ selected_skus[n].line = pr.line
          /\ selected_skus[n].sku_id = pr.sku_id
          /\ selected_skus[n].smm_score >= SMM_COMPLIANCE_THRESHOLD
    /\ \E i \in 1..Len(product_specs) :
          /\ product_specs[i].line = pr.line
          /\ product_specs[i].quantity = pr.quantity
    /\ SelectionsFor(pr.line) # {}

====
